---- MODULE Spec2Model ----
(***************************************************************************)
(* Model of proton.session.api.Session (request orchestrator, session      *)
(* gate, refresh coalescing, authentication), of the TLS pin check and of  *)
(* the alternative-routing DNS reply handling of python-proton-core.       *)
(*                                                                         *)
(* Coroutines run on one asyncio event loop: a task runs without           *)
(* interruption from one suspension point (network reply, Event.wait on a  *)
(* cleared event, sleep) to the next.  `cur` is the task that holds the    *)
(* loop (0 when the loop is idle); every task keeps its call stack of      *)
(* frames, one frame per coroutine of api.py being executed.               *)
(***************************************************************************)
EXTENDS Integers, Sequences, FiniteSets, TLC

\* ------------------------------------------------------------------ bounds
\* callers in Spec, callers in SpecReq, operations called in one behaviour,
\* replies by which the server or the network fails, token generations after
\* which the access token no longer expires
NTasks == 2
NReq == 3
MaxOps == 3
MaxFaults == 1
MaxGen == 2

\* error replies outside the API contract that the requests of SpecApi get
MaxApiFaults == 3
\* calls that read or write the environment of the session in SpecEnv
MaxEnvOps == 4
\* the refresh revisions of the sessions that SpecSer serializes
MaxRevision == 1

\* the observers registered with a session are at most MaxObservers
MaxObservers == 2

\* the transport choices of the automatic transport are NChoices
NChoices == 2

\* DNS queries of one resolution round, answers in one DNS reply, and the
\* time after which the clock stops
NQueries == 2
MaxAnswers == 1
MaxTime == 3

\* the longest string of the exhaustive part of the hostname inputs
MaxHostLen == 3

\* the longest buffer given to the name decoder, and the number of labels
\* after which a run of the decoder is no longer followed
MaxBuf == 4
MaxParts == 4

\* the largest answer count in the header of a reply (the replies hold one
\* record)
MaxRecords == 2

\* the calls of Loader.get on one loader
MaxLoaderCalls == 2

\* the calls made on one ProtonSSO
MaxSsoOps == 4

\* ------------------------------------------------------- program constants
\* attempts = 3 in async_api_request and in async_refresh
ApiAttempts == 3

\* the longest hostname segment of _VALID_HOSTNAME_SEGMENT and the longest
\* hostname of _is_valid_hostname
SegmentMax == 63

HostnameMax == 255

\* DNSParser._MINIMUM_RECORD_LENGTH
MINIMUM_RECORD_LENGTH == 12

\* tries_left = 3 in AutoTransport.async_api_request
AutoTries == 3
RefreshAttempts == 3

VARIABLES
    UID, AccessToken, RefreshToken, Scopes, AccountName, twoFA,
    refresh_revision, can_run_requests, notified,
    tasks, cur, nops,
    srvGen, srvLive, srvAccessOK, faults,
    refreshCalls,
    tls_pinning_hashes, server, tr,
    alternative_routes, now, ar,
    environment, envCall, nEnvOps,
    ser, persistence_observers, auto,
    dnsp, gn, hn, ld, sso

sess == <<UID, AccessToken, RefreshToken, Scopes, AccountName, twoFA>>
\* the asyncio.Event of the session with what its last change told the
\* persistence observers
lockVars == <<can_run_requests, notified>>
gate == <<refresh_revision, lockVars>>
srv == <<srvGen, srvLive, srvAccessOK, faults>>
sessionVars == <<sess, gate, tasks, cur, nops, srv, refreshCalls>>

\* the state outside the session: the pin set of the environment, the server
\* the base URL leads to and the request of the aiohttp transport
transportVars == <<tls_pinning_hashes, server, tr>>

\* the route cache of the alternative routing transport, the clock and the
\* request of that transport
arVars == <<alternative_routes, now, ar>>

\* Session.__environment (the name of the environment, "None" for None), the
\* last call that read or wrote it with its argument and its result, and the
\* number of these calls
envVars == <<environment, envCall, nEnvOps>>

\* what the session actions never touch: a session object that is
\* serialized and restored, with the maps it was serialized to
\* the state of the parts used on their own: DNSParser.parse, _get_name and
\* _is_valid_hostname, the Loader and a ProtonSSO
tools == <<dnsp, gn, hn, ld, sso>>
aside == <<ser, persistence_observers, auto, tools>>
outside == <<transportVars, arVars, envVars, aside>>

\* the caller coroutines
Tasks == DOMAIN tasks

\* none of the parts used on their own is in use
ToolsIdle ==
    /\ dnsp = "unused"
    /\ gn = "unused"
    /\ hn = "unused"
    /\ ld = "unused"
    /\ sso = "unused"

\* ------------------------------------------------------------------ values
\* None is 0 for UID, tokens and account names; "None" for Scopes.
\* Scopes abstracts the scope list: "twofactor" is a list holding
\* 'twofactor', "self" is a list that does not hold it.

\* what gpg.decrypt reports of an armored modulus: whether the signature is
\* valid, the fingerprint of the signing key (a string of hex digits) and the
\* signed data (base64 text followed by a newline)
NoSig == [valid |-> FALSE, fingerprint |-> <<>>, data |-> <<>>]

NoRet == [k |-> "none", e |-> "", http |-> 0, code |-> 0, tok |-> 0,
          flag |-> "", scopes |-> "None", tfa |-> FALSE, v |-> "", sig |-> NoSig]

Val(v) == [NoRet EXCEPT !.k = "val", !.v = v]

Exc(e, http, code) == [NoRet EXCEPT !.k = "exc", !.e = e, !.http = http, !.code = code]

\* raise ProtonCryptoError(msg)
CryptoError(msg) == [Exc("ProtonCryptoError", 0, 0) EXCEPT !.v = msg]

\* ProtonAPIError.from_proton_api_error: same status and body, other class
Downcast(e, r) == [r EXCEPT !.e = e]

\* a transport call: endpoint, the Authorization token and the refresh token
\* it carries, whether it was issued by a plain request while a mutating
\* sequence was in flight, and the reply once the server has answered
NoNet == [ep |-> "", tok |-> 0, rt |-> 0, mut |-> FALSE, reply |-> NoRet]

Frame(fn, ncc) ==
    [fn |-> fn, pc |-> "start", ncc |-> ncc, attempts |-> 0, rev |-> -1,
     ep |-> "", exc |-> NoRet, prev |-> 0, held |-> FALSE, modulus |-> <<>>]

\* log, saw, waited, own and nref record what the task did: the transport
\* calls it issued, the tokens it got an HTTP 401 for, the tokens whose 401 it
\* answered by waiting for a refresh in flight, those whose 401 it answered by
\* a network refresh of its own, the number of refresh replies it adopted, and
\* the (HTTP status, body code) of the errors async_api_request captured in
\* stored_exception
IdleTask == [stack |-> <<>>, ret |-> NoRet, net |-> NoNet, susp |-> "idle",
             op |-> "", log |-> <<>>, saw |-> {}, waited |-> {}, own |-> {},
             nref |-> 0, errs |-> <<>>]

\* ------------------------------------------------------------ stack helpers
Top(t) == tasks[t].stack[Len(tasks[t].stack)]

HasTop(t, fn, pc) ==
    /\ Len(tasks[t].stack) > 0
    /\ Top(t).fn = fn
    /\ Top(t).pc = pc

SetTop(stk, f) == [stk EXCEPT ![Len(stk)] = f]

Pop(stk) == SubSeq(stk, 1, Len(stk) - 1)

\* the frame f replaces the top frame and g is called on top of it
CallFrom(tk, f, g) ==
    [tk EXCEPT !.stack = Append(SetTop(tk.stack, f), g), !.ret = NoRet]

\* the top frame returns (or raises) r to its caller; the operation is done
\* when it was the first frame
ReturnFrom(tk, r) ==
    [tk EXCEPT !.stack = Pop(tk.stack), !.ret = r,
               !.susp = IF Len(tk.stack) = 1 THEN "done" ELSE tk.susp]

Running(t) == cur = t /\ tasks[t].susp = "run"

\* ------------------------------------------------------------ session gate
\* mutant of authenticated: every session counts as authenticated
authenticated_always == TRUE

\* Session.authenticated
authenticated == UID # 0

\* Session.needs_twofa
needs_twofa == Scopes = "twofactor"

\* asyncio.Event.set(): every coroutine suspended in Event.wait() has its
\* future resolved and will resume, whatever the event's value is by then
WakeWaiters(tk) ==
    [u \in Tasks |-> IF tk[u].susp = "wait" THEN [tk[u] EXCEPT !.susp = "ready"] ELSE tk[u]]

\* Session._requests_lock: value of the gate after the call
requests_lock(ncc) == IF ncc THEN can_run_requests ELSE "clear"

\* Session._requests_unlock: value of the gate after the call
requests_unlock(ncc) == IF ncc THEN can_run_requests ELSE "set"

\* the objects registered as persistence observers
Observers == {"sso", "other"}

\* reversed(seq)
Reverse(seq) == [i \in 1..Len(seq) |-> seq[Len(seq) + 1 - i]]

\* no observer has been told anything
NoNotice ==
    [acquired |-> <<>>, released |-> <<>>,
     outstanding |-> [observer \in {"sso", "other"} |-> -1], unpaired |-> FALSE]

\* the observers of a list
Listed(observers) == {observers[i] : i \in DOMAIN observers}

\* Session._requests_lock: the observers whose _acquire_session_lock the call
\* runs, in the order of the calls
observers_lock(ncc) ==
    IF ncc THEN notified
    ELSE [acquired |-> persistence_observers, released |-> <<>>,
          outstanding |-> [observer \in DOMAIN notified.outstanding |->
                              IF observer \in Listed(persistence_observers) THEN AccountName
                              ELSE notified.outstanding[observer]],
          unpaired |-> \/ notified.unpaired
                       \/ \E observer \in Listed(persistence_observers) :
                              notified.outstanding[observer] # -1]

\* the account each observer was last told to lock and has not been told to
\* release since (-1 for none), after the observers are told to release
\* account_name
released_for(outstanding, account_name) ==
    [observer \in DOMAIN outstanding |->
        IF observer \in Listed(persistence_observers) /\ outstanding[observer] = account_name
        THEN -1 ELSE outstanding[observer]]

\* mutant of observers_unlock: the observers are released in the order they
\* were acquired
observers_unlock_in_order(ncc, account_name) ==
    IF ncc THEN notified
    ELSE [notified EXCEPT !.released = persistence_observers,
                          !.outstanding = released_for(@, account_name)]

\* Session._requests_unlock: the observers whose _release_session_lock the
\* call runs, in the order of the calls, account_name being self.AccountName
\* when the call is made
observers_unlock(ncc, account_name) ==
    IF ncc THEN notified
    ELSE [notified EXCEPT !.released = Reverse(persistence_observers),
                          !.outstanding = released_for(@, account_name)]

\* self._requests_lock(no_condition_check)
RequestsLock(ncc) ==
    /\ can_run_requests' = requests_lock(ncc)
    /\ notified' = observers_lock(ncc)

\* self._requests_unlock(no_condition_check)
RequestsUnlock(ncc, account_name) ==
    /\ can_run_requests' = requests_unlock(ncc)
    /\ notified' = observers_unlock(ncc, account_name)

\* Session._requests_unlock: the waiters released by the call
unlock_wake(ncc, tk) == IF ncc THEN tk ELSE WakeWaiters(tk)

\* Session._requests_wait returns without suspending
requests_wait_passes(ncc) == ncc \/ can_run_requests # "clear"

\* a mutating sequence of task t is between its _requests_lock and its end
InFlight(t) == \E i \in 1..Len(tasks[t].stack) : tasks[t].stack[i].held

AnyInFlight == \E t \in Tasks : InFlight(t)

\* ------------------------------------------------------------------ server
\* The API server keeps one session generation: the access and the refresh
\* token of generation g are both the number g.
TokenValid(tok) == srvLive /\ srvAccessOK /\ tok # 0 /\ tok = srvGen

RefreshValid(rt) == srvLive /\ rt # 0 /\ rt = srvGen

\* fingerprints and signed data the model draws from: the fingerprint of the
\* modulus key as gpg prints it (upper case) and in lower case, and the
\* fingerprint of another key
Fingerprints == {<<"2", "b">>, <<"2", "B">>, <<"2", "c">>}

ModulusData == {<<"Q", "U", "\n">>}

SignedModuli == [valid : BOOLEAN, fingerprint : Fingerprints, data : ModulusData]

OKReply(tok, flag, scopes, tfa) ==
    [NoRet EXCEPT !.k = "val", !.http = 200, !.code = 1000, !.tok = tok,
                  !.flag = flag, !.scopes = scopes, !.tfa = tfa, !.v = "reply"]

\* transports: an envelope whose Code is not 1000/1001 raises ProtonAPIError
ErrReply(http, code) == Exc("ProtonAPIError", http, code)

Unreachable == Exc("ProtonAPINotReachable", 0, 0)

FaultReplies ==
    {Unreachable, ErrReply(500, 2000), ErrReply(409, 409), ErrReply(503, 503)}

\* replies of a server that follows the API contract
HonestReplies(n) ==
    CASE n.ep \in {"req", "lock_put"} ->
           IF TokenValid(n.tok) THEN {OKReply(0, "", "None", FALSE)}
           ELSE {ErrReply(401, 401)}
      [] n.ep = "scopes" ->
           IF TokenValid(n.tok) THEN {OKReply(0, "", "self", FALSE)}
           ELSE {ErrReply(401, 401)}
      [] n.ep = "refresh" ->
           IF RefreshValid(n.rt) THEN {OKReply(srvGen + 1, "", "self", FALSE)}
           ELSE {ErrReply(422, 10013)}
      [] n.ep = "logout" ->
           IF TokenValid(n.tok) THEN {OKReply(0, "", "None", FALSE)}
           ELSE {ErrReply(401, 401)}
      [] n.ep = "auth_info" ->
           {[OKReply(0, "", "None", FALSE) EXCEPT !.sig = m] : m \in SignedModuli}
      [] n.ep = "auth" ->
           {OKReply(srvGen + 1, p, "self", FALSE) :
                p \in {"proof_ok", "proof_bad", "proof_absent"}}
           \cup {OKReply(srvGen + 1, "proof_ok", "twofactor", TRUE)}
           \cup {ErrReply(422, 8002)}
      [] n.ep = "2fa" ->
           IF TokenValid(n.tok)
           THEN {OKReply(0, "", "self", FALSE),
                 [OKReply(0, "", "self", FALSE) EXCEPT !.code = 1001],
                 ErrReply(422, 8002)}
           ELSE {ErrReply(401, 401)}
      [] n.ep = "fork_get" ->
           {OKReply(srvGen + 1, "", "self", FALSE), ErrReply(422, 2000)}
      [] OTHER -> {}

\* the reply opens a new token generation on the server
OpensGeneration(n, r) ==
    /\ r.k = "val"
    /\ \/ n.ep \in {"refresh", "fork_get"}
       \/ n.ep = "auth" /\ r.flag = "proof_ok"

ServerReply(t) ==
    /\ cur = 0
    /\ tasks[t].susp = "net"
    /\ \E r \in HonestReplies(tasks[t].net) \cup
                 (IF faults < MaxFaults THEN FaultReplies ELSE {}) :
         /\ tasks' = [tasks EXCEPT ![t].net.reply = r, ![t].susp = "reply"]
         /\ faults' = IF r \in HonestReplies(tasks[t].net) THEN faults ELSE faults + 1
         /\ IF r \in HonestReplies(tasks[t].net) /\ OpensGeneration(tasks[t].net, r)
            THEN srvGen' = srvGen + 1 /\ srvLive' = TRUE /\ srvAccessOK' = TRUE
            ELSE IF r \in HonestReplies(tasks[t].net) /\ tasks[t].net.ep = "logout" /\ r.k = "val"
            THEN srvLive' = FALSE /\ UNCHANGED <<srvGen, srvAccessOK>>
            ELSE UNCHANGED <<srvGen, srvLive, srvAccessOK>>
    /\ UNCHANGED <<sess, gate, cur, nops, refreshCalls, outside>>

\* (HTTP status, body code) of the error envelopes a request may be answered
\* with: every status of the classification of async_api_request, with the
\* body codes 9001 and 12087 under several statuses, and unclassified ones
ApiFaults ==
    {<<403, 403>>, <<403, 12087>>, <<401, 401>>, <<401, 9001>>, <<422, 9001>>,
     <<422, 2000>>, <<400, 12087>>, <<408, 408>>, <<408, 12087>>, <<502, 502>>,
     <<429, 429>>, <<503, 503>>, <<500, 2000>>}

\* the transport call of a request is answered by an error envelope, whatever
\* the state of the server session
ServerFault(t) ==
    /\ cur = 0
    /\ tasks[t].susp = "net"
    /\ tasks[t].net.ep = "req"
    /\ faults < MaxApiFaults
    /\ \E e \in ApiFaults :
         tasks' = [tasks EXCEPT ![t].net.reply = ErrReply(e[1], e[2]), ![t].susp = "reply"]
    /\ faults' = faults + 1
    /\ UNCHANGED <<sess, gate, cur, nops, srvGen, srvLive, srvAccessOK, refreshCalls, outside>>

\* the access token of the current generation expires on the server
Expire ==
    /\ cur = 0
    /\ srvLive /\ srvAccessOK
    /\ srvGen < MaxGen
    /\ srvAccessOK' = FALSE
    /\ UNCHANGED <<sess, gate, tasks, cur, nops, srvGen, srvLive, faults, refreshCalls, outside>>

\* -------------------------------------------------------------- environment
\* the names of the environments the loader knows
EnvironmentNames == {"prod", "atlas", "ci"}

\* Loader.get('environment')(): the environment of the highest priority when
\* PROTON_API_ENVIRONMENT is not set
DefaultEnvironment == "prod"

\* Session.environment (getter): the value of __environment after the call;
\* an environment that is None becomes the default one
environment_get == IF environment = "None" THEN DefaultEnvironment ELSE environment

\* --------------------------------------------- __async_api_request_internal
\* Transport.async_api_request: the headers are read from the session when
\* the call is issued
SendCall(t) ==
    LET f == Top(t)
        n == [NoNet EXCEPT !.ep = f.ep,
                           !.tok = IF authenticated THEN AccessToken ELSE 0,
                           !.rt = IF f.ep = "refresh" THEN RefreshToken ELSE 0,
                           !.mut = ~f.ncc /\ AnyInFlight]
    IN  [tasks[t] EXCEPT !.stack = SetTop(@, [f EXCEPT !.pc = "net"]),
                         !.net = n, !.susp = "net",
                         !.log = Append(@, <<f.ep, n.tok>>)]

CountRefresh(t) == IF Top(t).ep = "refresh" THEN refreshCalls + 1 ELSE refreshCalls

\* await self._requests_wait(no_condition_check), then the transport call,
\* which reads the environment of the session for its URL and its headers
InternalStart(t) ==
    /\ Running(t)
    /\ HasTop(t, "internal", "start")
    /\ IF requests_wait_passes(Top(t).ncc)
       THEN /\ tasks' = [tasks EXCEPT ![t] = SendCall(t)]
            /\ refreshCalls' = CountRefresh(t)
            /\ environment' = environment_get
       ELSE /\ tasks' = [tasks EXCEPT ![t] =
                    [@ EXCEPT !.stack = SetTop(@, [Top(t) EXCEPT !.pc = "wait"]),
                              !.susp = "wait"]]
            /\ UNCHANGED <<refreshCalls, environment>>
    /\ cur' = 0
    /\ UNCHANGED <<sess, gate, srv, nops, transportVars, arVars, aside, envCall, nEnvOps>>

\* Event.wait() returns in a coroutine that was suspended in it
InternalWoken(t) ==
    /\ cur = 0
    /\ tasks[t].susp = "ready"
    /\ HasTop(t, "internal", "wait")
    /\ tasks' = [tasks EXCEPT ![t] = SendCall(t)]
    /\ refreshCalls' = CountRefresh(t)
    /\ environment' = environment_get
    /\ UNCHANGED <<sess, gate, cur, srv, nops, transportVars, arVars, aside, envCall, nEnvOps>>

\* the transport call returns the envelope or raises
InternalReply(t) ==
    /\ cur = 0
    /\ tasks[t].susp = "reply"
    /\ HasTop(t, "internal", "net")
    /\ tasks' = [tasks EXCEPT ![t] =
            ReturnFrom([@ EXCEPT !.susp = "run"], tasks[t].net.reply)]
    /\ cur' = t
    /\ UNCHANGED <<sess, gate, srv, nops, refreshCalls, outside>>

\* asyncio.sleep of __sleep_for_exception is over
SleepDone(t) ==
    /\ cur = 0
    /\ tasks[t].susp = "sleep"
    /\ tasks' = [tasks EXCEPT ![t].susp = "run"]
    /\ cur' = t
    /\ UNCHANGED <<sess, gate, srv, nops, refreshCalls, outside>>

\* -------------------------------------------------------- async_api_request
\* mutant of HumanVerif: both body codes are looked at under HTTP 422 only
HumanVerif_under_422_only(r) == r.http = 422 /\ r.code \in {9001, 12087}

\* e.http_code == 422 and e.body_code == 9001, elif e.body_code == 12087
HumanVerif(r) == (r.http = 422 /\ r.code = 9001) \/ r.code = 12087

\* while attempts > 0: ... ; raise stored_exception
ApiLoop(t) ==
    /\ Running(t)
    /\ HasTop(t, "api_request", "loop")
    /\ LET f == Top(t) IN
       IF f.attempts > 0
       THEN /\ tasks' = [tasks EXCEPT ![t] = CallFrom(@,
                    [f EXCEPT !.attempts = @ - 1, !.rev = refresh_revision, !.pc = "ret"],
                    [Frame("internal", f.ncc) EXCEPT !.ep = f.ep])]
            /\ UNCHANGED cur
       ELSE /\ tasks' = [tasks EXCEPT ![t] = ReturnFrom(@, f.exc)]
            /\ UNCHANGED cur
    /\ UNCHANGED <<sess, gate, srv, nops, refreshCalls, outside>>

\* the attempt returned or raised: the classification of async_api_request
ApiRet(t) ==
    /\ Running(t)
    /\ HasTop(t, "api_request", "ret")
    /\ LET f == Top(t)
           r == tasks[t].ret
           \* except ProtonAPIError as e: stored_exception = e
           caught == [tasks[t] EXCEPT !.errs = Append(@, <<r.http, r.code>>)]
           raise(x) == /\ tasks' = [tasks EXCEPT ![t] = ReturnFrom(caught, x)]
                       /\ UNCHANGED cur
           again == [f EXCEPT !.pc = "loop", !.exc = r]
       IN
       IF r.k = "val" \/ r.e # "ProtonAPIError"
       THEN /\ tasks' = [tasks EXCEPT ![t] = ReturnFrom(@, r)]
            /\ UNCHANGED cur
       ELSE IF r.http = 403
       THEN raise(Downcast(IF needs_twofa THEN "ProtonAPI2FANeeded"
                           ELSE "ProtonAPIMissingScopeError", r))
       ELSE IF r.http = 401
       THEN /\ tasks' = [tasks EXCEPT ![t] = CallFrom(
                    [caught EXCEPT !.saw = @ \cup {tasks[t].net.tok}],
                    [f EXCEPT !.pc = "refreshed", !.exc = r],
                    [Frame("refresh", f.ncc) EXCEPT !.rev = f.rev])]
            /\ UNCHANGED cur
       ELSE IF HumanVerif(r)
       THEN raise(Downcast("ProtonAPIHumanVerificationNeeded", r))
       ELSE IF r.http \in {408, 502}
       THEN /\ tasks' = [tasks EXCEPT ![t] = [caught EXCEPT !.stack = SetTop(@, again)]]
            /\ UNCHANGED cur
       ELSE IF r.http \in {429, 503}
       THEN /\ tasks' = [tasks EXCEPT ![t] =
                    [caught EXCEPT !.stack = SetTop(@, again), !.susp = "sleep"]]
            /\ cur' = 0
       ELSE raise(r)
    /\ UNCHANGED <<sess, gate, srv, nops, refreshCalls, outside>>

\* mutant of refresh_succeeded: the test of the refresh result is inverted
refresh_succeeded_inverted(r) == ~(r.k = "val" /\ r.v = "True")

\* the truth value of what async_refresh returned (True, False or None)
refresh_succeeded(r) == r.k = "val" /\ r.v = "True"

\* if await self.async_refresh(...): continue / else: raise ...AuthenticationNeeded
ApiRefreshed(t) ==
    /\ Running(t)
    /\ HasTop(t, "api_request", "refreshed")
    /\ LET f == Top(t)
           r == tasks[t].ret
       IN
       IF refresh_succeeded(r)
       THEN /\ tasks' = [tasks EXCEPT ![t].stack = SetTop(@, [f EXCEPT !.pc = "loop"])]
            /\ UNCHANGED cur
       ELSE /\ tasks' = [tasks EXCEPT ![t] = ReturnFrom(@,
                    IF r.k = "exc" THEN r
                    ELSE Downcast("ProtonAPIAuthenticationNeeded", f.exc))]
            /\ UNCHANGED cur
    /\ UNCHANGED <<sess, gate, srv, nops, refreshCalls, outside>>

\* ------------------------------------------------------ shared by mutators
\* Session._clear_local_data (AccountName is not cleared)
clear_local_data ==
    /\ UID' = 0
    /\ AccessToken' = 0
    /\ RefreshToken' = 0
    /\ Scopes' = "None"
    /\ twoFA' = FALSE
    /\ UNCHANGED AccountName

\* finally: self._requests_unlock(no_condition_check), leaving with r, the
\* account name of the session being account_name by then
FinallyAs(t, r, account_name) ==
    /\ tasks' = unlock_wake(Top(t).ncc, [tasks EXCEPT ![t] = ReturnFrom(@, r)])
    /\ RequestsUnlock(Top(t).ncc, account_name)
    /\ UNCHANGED cur

\* the same, in a step that leaves the account name as it is
Finally(t, r) == FinallyAs(t, r, AccountName)

\* the frame goes on at pc, without leaving the loop
Goto(t, pc) ==
    /\ tasks' = [tasks EXCEPT ![t].stack = SetTop(@, [Top(t) EXCEPT !.pc = pc])]
    /\ UNCHANGED cur

\* the frame calls __async_api_request_internal(ep, no_condition_check=True)
\* and goes on at pc when it returns
CallInternal(t, ep, pc) ==
    /\ tasks' = [tasks EXCEPT ![t] = CallFrom(@, [Top(t) EXCEPT !.pc = pc],
                    [Frame("internal", TRUE) EXCEPT !.ep = ep])]
    /\ UNCHANGED cur

\* ------------------------------------------------------------ async_refresh
\* mutant of revision_differs: the captured revision is compared to itself
revision_differs_from_itself(only_when) == only_when # -1 /\ only_when # only_when

\* only_when_refresh_revision_is is not None and ... != self.__refresh_revision
revision_differs(only_when) == only_when # -1 /\ only_when # refresh_revision

\* the revision test, then either the wait for the refresh in flight or
\* _requests_lock and the increment of the revision
RefreshStart(t) ==
    /\ Running(t)
    /\ HasTop(t, "refresh", "start")
    /\ LET f == Top(t) IN
       IF revision_differs(f.rev)
       THEN /\ IF requests_wait_passes(f.ncc)
               THEN /\ tasks' = [tasks EXCEPT ![t] = ReturnFrom(
                            [@ EXCEPT !.waited = @ \cup {tasks[t].net.tok}], Val("True"))]
                    /\ UNCHANGED cur
               ELSE /\ tasks' = [tasks EXCEPT ![t] =
                            [@ EXCEPT !.stack = SetTop(@, [f EXCEPT !.pc = "cowait"]),
                                      !.susp = "wait",
                                      !.waited = @ \cup {tasks[t].net.tok}]]
                    /\ cur' = 0
            /\ UNCHANGED gate
       ELSE /\ RequestsLock(f.ncc)
            /\ refresh_revision' = refresh_revision + 1
            /\ tasks' = [tasks EXCEPT ![t] =
                    [@ EXCEPT !.stack = SetTop(@, [f EXCEPT !.pc = "loop",
                                  !.attempts = RefreshAttempts, !.held = ~f.ncc]),
                              !.own = IF f.rev # -1 THEN @ \cup {tasks[t].net.tok} ELSE @]]
            /\ UNCHANGED cur
    /\ UNCHANGED <<sess, srv, nops, refreshCalls, outside>>

\* the wait for the refresh in flight is over: return True
RefreshCoalesced(t) ==
    /\ cur = 0
    /\ tasks[t].susp = "ready"
    /\ HasTop(t, "refresh", "cowait")
    /\ tasks' = [tasks EXCEPT ![t] = ReturnFrom([@ EXCEPT !.susp = "run"], Val("True"))]
    /\ cur' = t
    /\ UNCHANGED <<sess, gate, srv, nops, refreshCalls, outside>>

\* mutant of RefreshLoop: the revision is incremented inside the loop, once
\* for every attempt
RefreshLoop_counts_attempts(t) ==
    /\ Running(t)
    /\ HasTop(t, "refresh", "loop")
    /\ LET f == Top(t) IN
       IF f.attempts > 0
       THEN /\ tasks' = [tasks EXCEPT ![t] = CallFrom(@,
                    [f EXCEPT !.attempts = @ - 1, !.pc = "ret"],
                    [Frame("internal", TRUE) EXCEPT !.ep = "refresh"])]
            /\ refresh_revision' = refresh_revision + 1
            /\ UNCHANGED <<cur, lockVars>>
       ELSE Finally(t, Val("None")) /\ UNCHANGED refresh_revision
    /\ UNCHANGED <<sess, srv, nops, refreshCalls, outside>>

\* while attempts > 0: post /auth/refresh; the loop ends: finally, return None
RefreshLoop(t) ==
    /\ Running(t)
    /\ HasTop(t, "refresh", "loop")
    /\ LET f == Top(t) IN
       IF f.attempts > 0
       THEN /\ tasks' = [tasks EXCEPT ![t] = CallFrom(@,
                    [f EXCEPT !.attempts = @ - 1, !.pc = "ret"],
                    [Frame("internal", TRUE) EXCEPT !.ep = "refresh"])]
            /\ UNCHANGED <<cur, lockVars>>
       ELSE Finally(t, Val("None"))
    /\ UNCHANGED <<sess, refresh_revision, srv, nops, refreshCalls, outside>>

\* the reply of /auth/refresh
RefreshRet(t) ==
    /\ Running(t)
    /\ HasTop(t, "refresh", "ret")
    /\ LET f == Top(t)
           r == tasks[t].ret
       IN
       IF r.k = "val"
       THEN /\ AccessToken' = r.tok
            /\ RefreshToken' = r.tok
            /\ Scopes' = r.scopes
            /\ UNCHANGED <<UID, AccountName, twoFA>>
            /\ tasks' = unlock_wake(f.ncc, [tasks EXCEPT ![t] =
                    ReturnFrom([@ EXCEPT !.nref = @ + 1], Val("True"))])
            /\ RequestsUnlock(f.ncc, AccountName)
            /\ UNCHANGED cur
       ELSE IF r.e # "ProtonAPIError"
       THEN Finally(t, r) /\ UNCHANGED sess
       ELSE IF r.http = 409
       THEN Goto(t, "loop") /\ UNCHANGED <<sess, lockVars>>
       ELSE IF r.http \in {429, 503}
       THEN /\ tasks' = [tasks EXCEPT ![t].stack = SetTop(@, [f EXCEPT !.pc = "loop"]),
                                      ![t].susp = "sleep"]
            /\ cur' = 0
            /\ UNCHANGED <<sess, lockVars>>
       ELSE IF r.http \in {400, 422}
       THEN clear_local_data /\ Finally(t, Val("False"))
       ELSE Finally(t, Val("False")) /\ UNCHANGED sess
    /\ UNCHANGED <<refresh_revision, srv, nops, refreshCalls, outside>>

\* ------------------------------------------------------------- async_logout
\* _requests_lock, then the no-op of an unauthenticated session or DELETE /auth
LogoutStart(t) ==
    /\ Running(t)
    /\ HasTop(t, "logout", "start")
    /\ LET f == Top(t) IN
       IF ~authenticated
       THEN /\ clear_local_data
            /\ Finally(t, Val("True"))
       ELSE /\ RequestsLock(f.ncc)
            /\ tasks' = [tasks EXCEPT ![t] = CallFrom(@,
                    [f EXCEPT !.pc = "ret", !.held = ~f.ncc, !.prev = AccountName],
                    [Frame("internal", TRUE) EXCEPT !.ep = "logout"])]
            /\ UNCHANGED <<cur, sess>>
    /\ UNCHANGED <<refresh_revision, srv, nops, refreshCalls, outside>>

\* mutant of logout_completed: the 401 of DELETE /auth is raised like any
\* other API error
logout_completed_on_reply_only(r) == r.k = "val"

\* DELETE /auth returned, or raised a ProtonAPIError with e.http_code == 401
logout_completed(r) == r.k = "val" \/ (r.e = "ProtonAPIError" /\ r.http = 401)

\* the reply of DELETE /auth
LogoutRet(t) ==
    /\ Running(t)
    /\ HasTop(t, "logout", "ret")
    /\ LET r == tasks[t].ret IN
       IF logout_completed(r)
       THEN clear_local_data /\ Finally(t, Val("True"))
       ELSE Finally(t, r) /\ UNCHANGED sess
    /\ UNCHANGED <<refresh_revision, srv, nops, refreshCalls, outside>>

\* ------------------------------------------------------- async_authenticate
\* self._requests_lock(...); await self.async_logout(no_condition_check=True)
AuthStart(t) ==
    /\ Running(t)
    /\ HasTop(t, "authenticate", "start")
    /\ LET f == Top(t) IN
       /\ RequestsLock(f.ncc)
       /\ tasks' = [tasks EXCEPT ![t] = CallFrom(@,
               [f EXCEPT !.pc = "loggedout", !.held = ~f.ncc],
               Frame("logout", TRUE))]
    /\ UNCHANGED <<sess, refresh_revision, cur, srv, nops, refreshCalls, outside>>

\* async_logout returned: it is awaited before the try block, so what it
\* raises leaves async_authenticate without _requests_unlock
AuthLoggedOut(t) ==
    /\ Running(t)
    /\ HasTop(t, "authenticate", "loggedout")
    /\ LET r == tasks[t].ret IN
       IF r.k = "exc"
       THEN /\ tasks' = [tasks EXCEPT ![t] = ReturnFrom(@, r)]
            /\ UNCHANGED cur
       ELSE CallInternal(t, "auth_info", "info")
    /\ UNCHANGED <<sess, gate, srv, nops, refreshCalls, outside>>

\* SRP_MODULUS_KEY_FINGERPRINT, shortened to two hex digits
SRP_MODULUS_KEY_FINGERPRINT == <<"2", "b">>

\* str.lower on a string of hex digits
lower(str) ==
    [i \in DOMAIN str |-> CASE str[i] = "B" -> "b" [] str[i] = "C" -> "c" [] OTHER -> str[i]]

\* bytes.strip: the data without the whitespace at its ends
RECURSIVE strip(_)
strip(d) ==
    IF d = <<>> THEN d
    ELSE IF d[1] = "\n" THEN strip(Tail(d))
    ELSE IF d[Len(d)] = "\n" THEN strip(SubSeq(d, 1, Len(d) - 1))
    ELSE d

\* base64.b64decode: every character is the 6-bit value of its place in the
\* base64 alphabet (the packing of the values into bytes is left out)
b64decode(d) == [i \in DOMAIN d |-> CASE d[i] = "Q" -> 16 [] d[i] = "U" -> 20 [] OTHER -> 63]

\* mutant of modulus_verified: the fingerprint of the signing key is not compared
modulus_verified_any_key(verified) == verified.valid

\* Session._verify_modulus: verified.valid and
\* verified.fingerprint.lower() == SRP_MODULUS_KEY_FINGERPRINT
modulus_verified(verified) ==
    verified.valid /\ lower(verified.fingerprint) = SRP_MODULUS_KEY_FINGERPRINT

\* Session._verify_modulus: return base64.b64decode(verified.data.strip())
verify_modulus(verified) == b64decode(strip(verified.data))

\* the reply of /auth/info
AuthInfo(t) ==
    /\ Running(t)
    /\ HasTop(t, "authenticate", "info")
    /\ LET r == tasks[t].ret IN
       IF r.k = "exc"
       THEN Finally(t, r)
       ELSE IF ~modulus_verified(r.sig)
       THEN Finally(t, CryptoError("Invalid modulus"))
       ELSE /\ tasks' = [tasks EXCEPT ![t] = CallFrom(@,
                    [Top(t) EXCEPT !.pc = "auth", !.modulus = verify_modulus(r.sig)],
                    [Frame("internal", TRUE) EXCEPT !.ep = "auth"])]
            /\ UNCHANGED <<cur, lockVars>>
    /\ UNCHANGED <<sess, refresh_revision, srv, nops, refreshCalls, outside>>

\* mutant of ProofAccepted: the result of usr.authenticated() is not tested
ProofAccepted_untested(r) == TRUE

\* usr.verify_session(ServerProof); usr.authenticated()
ProofAccepted(r) == r.flag = "proof_ok"

\* the reply of /auth
AuthReply(t) ==
    /\ Running(t)
    /\ HasTop(t, "authenticate", "auth")
    /\ LET r == tasks[t].ret IN
       IF r.k = "exc"
       THEN /\ Finally(t, IF r.e = "ProtonAPIError" /\ r.code = 8002
                          THEN Val("False") ELSE r)
            /\ UNCHANGED sess
       ELSE IF r.flag = "proof_absent"
       THEN Finally(t, Val("False")) /\ UNCHANGED sess
       ELSE IF ~ProofAccepted(r)
       THEN Finally(t, CryptoError("Invalid server proof")) /\ UNCHANGED sess
       ELSE /\ UID' = r.tok
            /\ AccessToken' = r.tok
            /\ RefreshToken' = r.tok
            /\ Scopes' = r.scopes
            /\ AccountName' = 1
            /\ twoFA' = r.tfa
            /\ FinallyAs(t, Val("True"), 1)
    /\ UNCHANGED <<refresh_revision, srv, nops, refreshCalls, outside>>

\* -------------------------------------------------------- async_provide_2fa
TfaStart(t) ==
    /\ Running(t)
    /\ HasTop(t, "provide_2fa", "start")
    /\ RequestsLock(Top(t).ncc)
    /\ tasks' = [tasks EXCEPT ![t] = CallFrom(@,
            [Top(t) EXCEPT !.pc = "ret", !.held = ~Top(t).ncc],
            [Frame("internal", TRUE) EXCEPT !.ep = "2fa"])]
    /\ UNCHANGED <<sess, refresh_revision, cur, srv, nops, refreshCalls, outside>>

\* mutant of twofa_jail: body code 8002 is handled like any other error
twofa_jail_ignored(r) == FALSE

\* except ProtonAPIError as e: if e.body_code == 8002
twofa_jail(r) == r.e = "ProtonAPIError" /\ r.code = 8002

\* the reply of /auth/2fa
TfaRet(t) ==
    /\ Running(t)
    /\ HasTop(t, "provide_2fa", "ret")
    /\ LET r == tasks[t].ret IN
       IF r.k = "val"
       THEN /\ Scopes' = r.scopes
            /\ twoFA' = IF r.code = 1000 THEN FALSE ELSE twoFA
            /\ UNCHANGED <<UID, AccessToken, RefreshToken, AccountName>>
            /\ Finally(t, IF r.code = 1000 THEN Val("True") ELSE Val("False"))
       ELSE IF twofa_jail(r)
       THEN clear_local_data /\ Finally(t, Downcast("ProtonAPIAuthenticationNeeded", r))
       ELSE IF r.e = "ProtonAPIError" /\ r.http = 401
       THEN Finally(t, Val("False")) /\ UNCHANGED sess
       ELSE Finally(t, r) /\ UNCHANGED sess
    /\ UNCHANGED <<refresh_revision, srv, nops, refreshCalls, outside>>

\* --------------------------------------------------------------- async_lock
LockStart(t) ==
    /\ Running(t)
    /\ HasTop(t, "lock", "start")
    /\ RequestsLock(Top(t).ncc)
    /\ tasks' = [tasks EXCEPT ![t] = CallFrom(@,
            [Top(t) EXCEPT !.pc = "put", !.held = ~Top(t).ncc],
            [Frame("internal", TRUE) EXCEPT !.ep = "lock_put"])]
    /\ UNCHANGED <<sess, refresh_revision, cur, srv, nops, refreshCalls, outside>>

\* the reply of PUT /users/lock
LockPut(t) ==
    /\ Running(t)
    /\ HasTop(t, "lock", "put")
    /\ IF tasks[t].ret.k = "exc"
       THEN Finally(t, tasks[t].ret)
       ELSE CallInternal(t, "scopes", "scopes") /\ UNCHANGED lockVars
    /\ UNCHANGED <<sess, refresh_revision, srv, nops, refreshCalls, outside>>

\* the reply of /auth/scopes
LockScopes(t) ==
    /\ Running(t)
    /\ HasTop(t, "lock", "scopes")
    /\ IF tasks[t].ret.k = "exc"
       THEN Finally(t, tasks[t].ret) /\ UNCHANGED sess
       ELSE /\ Scopes' = tasks[t].ret.scopes
            /\ UNCHANGED <<UID, AccessToken, RefreshToken, AccountName, twoFA>>
            /\ Finally(t, Val("True"))
    /\ UNCHANGED <<refresh_revision, srv, nops, refreshCalls, outside>>

\* -------------------------------------------------------- async_import_fork
\* mutant of ApiFrame: the budget of async_api_request is one attempt larger
ApiFrame_one_more_attempt(ep, ncc) ==
    [Frame("api_request", ncc) EXCEPT !.pc = "loop", !.ep = ep, !.attempts = ApiAttempts + 1]

\* the frame of async_api_request when it is called: attempts = 3
ApiFrame(ep, ncc) ==
    [Frame("api_request", ncc) EXCEPT !.pc = "loop", !.ep = ep, !.attempts = ApiAttempts]

ForkStart(t) ==
    /\ Running(t)
    /\ HasTop(t, "import_fork", "start")
    /\ RequestsLock(Top(t).ncc)
    /\ tasks' = [tasks EXCEPT ![t] = CallFrom(@,
            [Top(t) EXCEPT !.pc = "ret", !.held = ~Top(t).ncc],
            ApiFrame("fork_get", TRUE))]
    /\ UNCHANGED <<sess, refresh_revision, cur, srv, nops, refreshCalls, outside>>

\* async_api_request of the fork returned
ForkRet(t) ==
    /\ Running(t)
    /\ HasTop(t, "import_fork", "ret")
    /\ LET r == tasks[t].ret IN
       IF r.k = "exc"
       THEN Finally(t, r) /\ UNCHANGED sess
       ELSE /\ UID' = r.tok
            /\ RefreshToken' = r.tok
            /\ AccessToken' = r.tok
            /\ Scopes' = r.scopes
            /\ UNCHANGED <<AccountName, twoFA>>
            /\ Finally(t, Val("payload"))
    /\ UNCHANGED <<refresh_revision, srv, nops, refreshCalls, outside>>

\* ------------------------------------------------- calls made on the session
Ops == {"request", "refresh", "logout", "authenticate", "provide_2fa", "lock",
        "import_fork"}

\* the first frame of a public coroutine, called with no_condition_check=False
FirstFrame(op) ==
    IF op = "request" THEN ApiFrame("req", FALSE) ELSE Frame(op, FALSE)

\* a caller coroutine calls an operation: a caller that has not run yet
\* (callers are taken in order), or one whose previous operation is done,
\* at once (it still holds the loop) or later
Start(t, op) ==
    /\ nops < MaxOps
    /\ \/ /\ cur = 0
          /\ tasks[t].susp \in {"idle", "done"}
          /\ IF t = 1 THEN TRUE ELSE tasks[t - 1].susp # "idle"
       \/ /\ cur = t
          /\ tasks[t].susp = "done"
    /\ tasks' = [tasks EXCEPT ![t] =
            [IdleTask EXCEPT !.stack = <<FirstFrame(op)>>, !.susp = "run", !.op = op]]
    /\ cur' = t
    /\ nops' = nops + 1
    /\ UNCHANGED <<sess, gate, srv, refreshCalls, outside>>

\* the caller coroutine suspends or ends after an operation
Yield(t) ==
    /\ cur = t
    /\ tasks[t].susp = "done"
    /\ cur' = 0
    /\ UNCHANGED <<sess, gate, tasks, nops, srv, refreshCalls, outside>>

NoCall == [op |-> "", arg |-> "", result |-> ""]

EnvCalled(op, arg, result) ==
    /\ nEnvOps < MaxEnvOps
    /\ nEnvOps' = nEnvOps + 1
    /\ envCall' = [op |-> op, arg |-> arg, result |-> result]

\* Session.environment (getter), as the transports and __getstate__ read it:
\* an environment that is None becomes the default one
EnvironmentGet ==
    /\ environment' = environment_get
    /\ EnvCalled("get", "", environment_get)
    /\ UNCHANGED <<sessionVars, transportVars, arVars, aside>>

\* mutant of environment_is_set: the setter never finds an environment
environment_is_set_never == FALSE

\* if self.__environment is not None
environment_is_set == environment # "None"

\* Session.environment (setter): newvalue is None, the name of an environment
\* or an Environment (both are the name here), or something else ("object")
EnvironmentSet(newvalue) ==
    /\ IF newvalue = "None"
       THEN EnvCalled("set", newvalue, "ok") /\ UNCHANGED environment
       ELSE IF newvalue \notin EnvironmentNames
       THEN EnvCalled("set", newvalue, "TypeError") /\ UNCHANGED environment
       ELSE IF environment = newvalue
       THEN EnvCalled("set", newvalue, "ok") /\ UNCHANGED environment
       ELSE IF environment_is_set
       THEN EnvCalled("set", newvalue, "ValueError") /\ UNCHANGED environment
       ELSE EnvCalled("set", newvalue, "ok") /\ environment' = newvalue
    /\ UNCHANGED <<sessionVars, transportVars, arVars, aside>>

\* what __getstate__ returns: {} for a session without UID, and the session
\* data with the name of the environment otherwise
SerializedStates ==
    {[UID |-> 0, AccessToken |-> 0, RefreshToken |-> 0, Scopes |-> "None",
      AccountName |-> 0, Environment |-> "None"]}
    \cup {[UID |-> 1, AccessToken |-> 1, RefreshToken |-> 1, Scopes |-> "self",
            AccountName |-> 1, Environment |-> e] : e \in EnvironmentNames}

\* Session.__setstate__(data) on a constructed session: LastUseData is not
\* read (the attributes exist), the session data and the environment are
\* taken from data, None where data has no such key
RestoreState(data) ==
    /\ UID' = data.UID
    /\ AccessToken' = data.AccessToken
    /\ RefreshToken' = data.RefreshToken
    /\ Scopes' = data.Scopes
    /\ AccountName' = data.AccountName
    /\ environment' = data.Environment
    /\ EnvCalled("setstate", data.Environment, "ok")
    /\ UNCHANGED <<twoFA, gate, tasks, cur, nops, srv, refreshCalls, transportVars, arVars, aside>>

\* Session.__setstate__ with the persisted data of a live server session,
\* before the session is used
SetState ==
    /\ cur = 0
    /\ \A t \in Tasks : tasks[t].susp = "idle"
    /\ UID = 0 /\ srvGen = 0
    /\ UID' = 1
    /\ AccessToken' = 1
    /\ RefreshToken' = 1
    /\ \E sc \in {"self", "twofactor"} : Scopes' = sc /\ twoFA' = (sc = "twofactor")
    /\ \E account_name \in {1, 2} : AccountName' = account_name
    /\ srvGen' = 1
    /\ srvLive' = TRUE
    /\ srvAccessOK' = TRUE
    /\ environment' = DefaultEnvironment
    /\ UNCHANGED <<gate, tasks, cur, nops, faults, refreshCalls, transportVars, arVars, aside,
                   envCall, nEnvOps>>

SessionInit ==
    /\ environment = "None"
    /\ envCall = NoCall
    /\ nEnvOps = 0
    /\ UID = 0
    /\ AccessToken = 0
    /\ RefreshToken = 0
    /\ Scopes = "None"
    /\ AccountName = 0
    /\ twoFA = FALSE
    /\ refresh_revision = 0
    /\ can_run_requests = "none"
    /\ notified = NoNotice
    /\ cur = 0
    /\ nops = 0
    /\ srvGen = 0
    /\ srvLive = FALSE
    /\ srvAccessOK = FALSE
    /\ refreshCalls = 0

\* ------------------------------------------------- transports/aiohttp.py
\* public keys a server may present in its leaf certificate
Keys == {"key_a", "key_b", "key_c"}

\* hashlib.sha256(pubkey).digest(), shortened to two bytes
sha256(pubkey) ==
    CASE pubkey = "key_a" -> <<1, 2>>
      [] pubkey = "key_b" -> <<3, 4>>
      [] OTHER -> <<5, 6>>

\* the pins an environment may list: base64 strings
PinStrings == {"AQI=", "AwQ="}

\* base64.b64decode of a pin string
pin_b64decode(fp) == IF fp = "AQI=" THEN <<1, 2>> ELSE <<3, 4>>

\* Environment.tls_pinning_hashes: None or a set of pin strings
NoPins == [none |-> TRUE, hashes |-> {}]

PinSets == {NoPins} \cup {[none |-> FALSE, hashes |-> h] : h \in SUBSET PinStrings}

\* mutant of fingerprints: an empty set of pins is taken as no set of pins
fingerprints_none_when_empty(pins) ==
    [none |-> pins.none \/ pins.hashes = {}, digests |-> {pin_b64decode(fp) : fp \in pins.hashes}]

\* AiohttpCertkeyFingerprint.__init__: the decoded pins, or None
fingerprints(pins) ==
    [none |-> pins.none, digests |-> {pin_b64decode(fp) : fp \in pins.hashes}]

\* the outcome of a transport request
NoResult == [k |-> "none", e |-> "", msg |-> "", code |-> 0]

Raised(e, msg) == [NoResult EXCEPT !.k = "exc", !.e = e, !.msg = msg]

Envelope(code) == [NoResult EXCEPT !.k = "val", !.code = code]

IdleRequest == [pc |-> "idle", ssl_specs |-> "", sslcontext |-> FALSE, result |-> NoResult]

\* mutant of pin_mismatch: a connection whose key is not pinned passes
pin_mismatch_ignored(fps, pubkey) == FALSE

\* AiohttpCertkeyFingerprint.check: pubkey_hash not in self._fingerprints
pin_mismatch(fps, pubkey) == sha256(pubkey) \notin fps.digests

\* AiohttpCertkeyFingerprint.check raises
check_raises(fps, sslcontext, pubkey) ==
    IF ~sslcontext THEN FALSE
    ELSE IF fps.none THEN FALSE
    ELSE pin_mismatch(fps, pubkey)

\* AiohttpTransport.async_api_request is called with the arguments it takes:
\* ssl_specs is the pin check or the default context with CERT_REQUIRED
TransportCall ==
    /\ tr.pc \in {"idle", "done"}
    /\ tr' = [IdleRequest EXCEPT !.pc = "connect",
                 !.ssl_specs = IF ~tls_pinning_hashes.none THEN "fingerprint"
                               ELSE "default_context"]
    /\ UNCHANGED <<sessionVars, envVars, aside, tls_pinning_hashes, server, arVars>>

\* Session.__async_api_request_internal calls the transport with
\* return_raw=return_raw, a keyword AiohttpTransport.async_api_request does
\* not take: the call raises TypeError before anything is sent
SessionTransportCall ==
    /\ tr.pc \in {"idle", "done"}
    /\ tr' = [IdleRequest EXCEPT !.pc = "done",
                 !.result = Raised("TypeError", "unexpected keyword argument 'return_raw'")]
    /\ UNCHANGED <<sessionVars, envVars, aside, tls_pinning_hashes, server, arVars>>

\* the TLS connection of fct(..., ssl=ssl_specs): the default context
\* validates the certificate chain, the pin check object replaces that
\* validation; a failure of the connection is an aiohttp.ClientError
TlsConnect ==
    /\ tr.pc = "connect"
    /\ \E up \in BOOLEAN :
         IF ~up \/ (tr.ssl_specs = "default_context" /\ ~server.chain_ok)
         THEN tr' = [tr EXCEPT !.pc = "done",
                        !.result = Raised("ProtonAPINotReachable", "Connection error.")]
         ELSE tr' = [tr EXCEPT !.sslcontext = TRUE,
                        !.pc = IF tr.ssl_specs = "fingerprint" THEN "check" ELSE "respond"]
    /\ UNCHANGED <<sessionVars, envVars, aside, tls_pinning_hashes, server, arVars>>

\* AiohttpCertkeyFingerprint.check on the connection; except
\* ProtonAPINotReachable: raise
FingerprintCheck ==
    /\ tr.pc = "check"
    /\ IF check_raises(fingerprints(tls_pinning_hashes), tr.sslcontext, server.leaf)
       THEN tr' = [tr EXCEPT !.pc = "done",
                      !.result = Raised("ProtonAPINotReachable",
                                        "TLS pinning verification failed")]
       ELSE tr' = [tr EXCEPT !.pc = "respond"]
    /\ UNCHANGED <<sessionVars, envVars, aside, tls_pinning_hashes, server, arVars>>

\* the reply: its content type, then the Code of its envelope
TransportResponse ==
    /\ tr.pc = "respond"
    /\ \E json \in BOOLEAN : \E code \in {1000, 1001, 2000} :
         tr' = [tr EXCEPT !.pc = "done", !.result =
                   IF ~json THEN Raised("ProtonAPINotReachable", "API returned non-json results")
                   ELSE IF code \notin {1000, 1001} THEN [Raised("ProtonAPIError", "") EXCEPT !.code = code]
                   ELSE Envelope(code)]
    /\ UNCHANGED <<sessionVars, envVars, aside, tls_pinning_hashes, server, arVars>>

\* no transport request is made
TransportIdle ==
    /\ tls_pinning_hashes = NoPins
    /\ server = [leaf |-> "key_a", chain_ok |-> TRUE]
    /\ tr = IdleRequest

\* --------------------------------------- transports/alternativerouting.py
\* bytes.decode('ascii') of one byte
ascii(b) ==
    CASE b = 97 -> "a" [] b = 45 -> "-" [] b = 46 -> "." [] b = 47 -> "/"
      [] b = 49 -> "1" [] b = 32 -> " " [] b = 10 -> "LF" [] OTHER -> "?"

\* bytes.decode('ascii') raises UnicodeDecodeError
undecodable(bytes) == \E i \in DOMAIN bytes : bytes[i] >= 128

decode(bytes) == [i \in DOMAIN bytes |-> ascii(bytes[i])]

\* an IN TXT record whose data is one character string, with its TTL
TXT(str, ttl) ==
    [type |-> 16, class |-> 1, ttl |-> ttl, dlen |-> Len(str) + 1, rdata |-> <<Len(str)>> \o str]

\* the records a resolver may answer with: TXT records holding a.a, a/ (a
\* host followed by a path), -a and a byte that is not ASCII, a TXT record
\* whose length byte is wrong, and an IN A record
Records ==
    {TXT(str, ttl) : str \in {<<97, 46, 97>>, <<97, 47>>}, ttl \in {1, 2}}
    \cup {TXT(<<45, 97>>, 1), TXT(<<200>>, 1)}
    \cup {[TXT(<<97>>, 1) EXCEPT !.rdata = <<5, 97>>]}
    \cup {[type |-> 1, class |-> 1, ttl |-> 1, dlen |-> 4, rdata |-> <<97, 97, 46, 97>>]}

RECURSIVE SeqsUpTo(_, _)
SeqsUpTo(S, n) ==
    IF n = 0 THEN {<<>>}
    ELSE SeqsUpTo(S, n - 1) \cup {Append(q, x) : q \in SeqsUpTo(S, n - 1), x \in S}

\* what a DNS-over-HTTPS query may get: no HTTP reply, a reply shorter than
\* the header, or a reply with its RCODE and its answer records
DnsReplies ==
    {[kind |-> k, rcode |-> 0, answers |-> <<>>] : k \in {"no_reply", "truncated"}}
    \cup {[kind |-> "reply", rcode |-> c, answers |-> <<>>] : c \in {2, 3}}
    \cup {[kind |-> "reply", rcode |-> 0, answers |-> a] : a \in SeqsUpTo(Records, MaxAnswers)}

\* the outcome of a query task: the answers it returns or what it raises
QueryOk(answers) == [k |-> "ok", e |-> "", answers |-> answers]

QueryRaised(e) == [k |-> "exc", e |-> e, answers |-> <<>>]

\* _async_dns_query, the loop over the answer records: a TXT record whose
\* length byte is wrong raises, the data of every record, IN TXT or not,
\* becomes the domain of an answer that expires rec_ttl after time.time()
RECURSIVE parse_answers(_, _, _)
parse_answers(recs, t, answers) ==
    IF recs = <<>> THEN QueryOk(answers)
    ELSE LET rec == Head(recs)
             record == rec.rdata
         IN  IF /\ rec.type = 16 /\ rec.class = 1
                /\ (record[1] # rec.dlen - 1 \/ record[1] # Len(record) - 1)
             THEN QueryRaised("ProtonAPINotReachable")
             ELSE IF undecodable(Tail(record))
             THEN QueryRaised("UnicodeDecodeError")
             ELSE parse_answers(Tail(recs), t,
                      Append(answers, [expiration_time |-> t + rec.ttl,
                                       domain |-> decode(Tail(record))]))

\* mutant of dns_query: RCODE 3 is a failure of the resolver like any other
dns_query_nxdomain_transient(reply, t) ==
    IF reply.kind = "no_reply" THEN QueryRaised("ClientError")
    ELSE IF reply.kind = "truncated" THEN QueryRaised("ProtonAPINotReachable")
    ELSE IF reply.rcode # 0 THEN QueryRaised("ProtonAPINotReachable")
    ELSE parse_answers(reply.answers, t, <<>>)

\* _async_dns_query on a reply received at time t
dns_query(reply, t) ==
    IF reply.kind = "no_reply" THEN QueryRaised("ClientError")
    ELSE IF reply.kind = "truncated" THEN QueryRaised("ProtonAPINotReachable")
    ELSE IF reply.rcode = 3 THEN QueryRaised("ProtonAPINotAvailable")
    ELSE IF reply.rcode # 0 THEN QueryRaised("ProtonAPINotReachable")
    ELSE parse_answers(reply.answers, t, <<>>)

\* list.sort(key=expiration_time, reverse=True): stable, latest expiry first
RECURSIVE insert_route(_, _)
insert_route(sorted, x) ==
    IF sorted = <<>> THEN <<x>>
    ELSE IF Head(sorted).expiration_time >= x.expiration_time
    THEN <<Head(sorted)>> \o insert_route(Tail(sorted), x)
    ELSE <<x>> \o sorted

RECURSIVE sort_routes(_)
sort_routes(routes) ==
    IF routes = <<>> THEN <<>>
    ELSE insert_route(sort_routes(SubSeq(routes, 1, Len(routes) - 1)), routes[Len(routes)])

\* x.domain not in domains and x.expiration_time >= time.time()
route_kept(x, domains, t) == x.domain \notin domains /\ x.expiration_time >= t

\* the routes kept from the cache: those whose domain is not among the new
\* results and that have not expired
RECURSIVE kept_routes(_, _, _)
kept_routes(routes, domains, t) ==
    IF routes = <<>> THEN <<>>
    ELSE (IF route_kept(Head(routes), domains, t) THEN <<Head(routes)>> ELSE <<>>)
         \o kept_routes(Tail(routes), domains, t)

\* results_ok += task.result() for the tasks of done that returned
RECURSIVE results_of(_)
results_of(done) ==
    IF done = <<>> THEN <<>>
    ELSE (IF Head(done).k = "ok" THEN Head(done).answers ELSE <<>>) \o results_of(Tail(done))

\* mutant of keeps_old_routes: a round without a result keeps no old route
keeps_old_routes_never(routes) == FALSE

\* if len(self._alternative_routes) > 0: we have routes, but we were not able
\* to resolve new ones, just keep the old ones
keeps_old_routes(routes) == Len(routes) > 0

\* the orders in which the set done of asyncio.wait may be iterated
Orders(done) ==
    {[i \in DOMAIN done |-> done[p[i]]] :
        p \in {q \in [DOMAIN done -> DOMAIN done] : \A i, j \in DOMAIN done : i # j => q[i] # q[j]}}

\* nx: a query of the tasks that are done got RCODE 3; round: how the last
\* round of the request ended ("new", "kept", "raised", "" for no round)
IdleAR == [pc |-> "idle", pending |-> 0, done |-> <<>>, nx |-> FALSE, round |-> "",
           result |-> NoResult, host |-> <<>>]

\* AlternativeRoutingTransport.async_api_request: routes are resolved when
\* there is none or the first one has expired
ARCall ==
    /\ ar.pc \in {"idle", "done"}
    /\ IF Len(alternative_routes) = 0 \/ alternative_routes[1].expiration_time < now
       THEN ar' = [IdleAR EXCEPT !.pc = "resolving", !.pending = NQueries]
       ELSE ar' = [IdleAR EXCEPT !.pc = "send"]
    /\ UNCHANGED <<sessionVars, envVars, aside, transportVars, alternative_routes, now>>

\* one of the query tasks of _get_alternative_routes ends
DnsQueryDone ==
    /\ ar.pc = "resolving"
    /\ ar.pending > 0
    /\ \E reply \in DnsReplies :
         ar' = [ar EXCEPT !.pending = @ - 1, !.done = Append(@, dns_query(reply, now)),
                   !.nx = @ \/ (reply.kind = "reply" /\ reply.rcode = 3)]
    /\ UNCHANGED <<sessionVars, envVars, aside, transportVars, alternative_routes, now>>

\* _get_alternative_routes: asyncio.wait returns the tasks that are done; the
\* loop goes on while tasks are pending and there is no result, then the
\* cache is updated
RoundWake ==
    /\ ar.pc = "resolving"
    /\ ar.done # <<>>
    /\ \E done \in Orders(ar.done) :
         LET results_ok == results_of(done)
             domains == {results_ok[i].domain : i \in DOMAIN results_ok}
         IN
         IF \E i \in DOMAIN done : done[i].e = "ProtonAPINotAvailable"
         THEN /\ ar' = [ar EXCEPT !.pc = "done", !.pending = 0, !.done = <<>>,
                           !.nx = FALSE, !.round = "raised",
                           !.result = Raised("ProtonAPINotAvailable",
                               "No alternative routing exists for this environment (NXDOMAIN)")]
              /\ UNCHANGED alternative_routes
         ELSE IF ar.pending > 0 /\ results_ok = <<>>
         THEN /\ ar' = [ar EXCEPT !.done = <<>>, !.nx = FALSE]
              /\ UNCHANGED alternative_routes
         ELSE IF results_ok = <<>>
         THEN /\ IF keeps_old_routes(alternative_routes)
                 THEN ar' = [ar EXCEPT !.pc = "send", !.pending = 0, !.done = <<>>,
                                !.nx = FALSE, !.round = "kept"]
                 ELSE ar' = [ar EXCEPT !.pc = "done", !.pending = 0, !.done = <<>>,
                                !.nx = FALSE, !.round = "raised",
                                !.result = Raised("ProtonAPINotReachable",
                                    "Couldn't resolve any alternative routing names")]
              /\ UNCHANGED alternative_routes
         ELSE /\ alternative_routes' =
                    sort_routes(kept_routes(alternative_routes, domains, now) \o results_ok)
              /\ ar' = [ar EXCEPT !.pc = "send", !.pending = 0, !.done = <<>>,
                            !.nx = FALSE, !.round = "new"]
    /\ UNCHANGED <<sessionVars, envVars, aside, transportVars, now>>

\* http_base_url: the request is sent to the domain of the first route
ARSend ==
    /\ ar.pc = "send"
    /\ IF Len(alternative_routes) = 0
       THEN ar' = [ar EXCEPT !.pc = "done", !.result = Raised("ProtonAPINotReachable",
                       "AlternativeRouting transport doesn't have any route")]
       ELSE ar' = [ar EXCEPT !.pc = "done", !.host = alternative_routes[1].domain,
                       !.result = Envelope(1000)]
    /\ UNCHANGED <<sessionVars, envVars, aside, transportVars, alternative_routes, now>>

\* time.time() advances
Tick ==
    /\ now < MaxTime
    /\ now' = now + 1
    /\ UNCHANGED <<sessionVars, envVars, aside, transportVars, alternative_routes, ar>>

\* AlternativeRoutingTransport.__init__: no route, no request
ARIdle ==
    /\ alternative_routes = <<>>
    /\ now = 0
    /\ ar = IdleAR

\* ------------------------------------------------------ transports/auto.py
\* the positions of AutoTransport._transport_choices, 0 for no transport
Choices == 1..NChoices

\* the classes a choice may name: the two of the default list and the Mock
\* of the tests, whose async_api_request takes any argument
TransportClasses == {"AiohttpTransport", "AlternativeRoutingTransport", "Mock"}

\* the default list: (0, AiohttpTransport), (5, AlternativeRoutingTransport),
\* and a Mock at every further position
DefaultChoices ==
    [c \in Choices |-> IF c = 1 THEN "AiohttpTransport"
                       ELSE IF c = 2 THEN "AlternativeRoutingTransport" ELSE "Mock"]

\* the JSON object {"Code": 1000}
PingOK == [Code |-> 1000]

\* what becomes of a call: it returns v, it raises e or it does not end in time
NoOutcome == [k |-> "none", e |-> "", v |-> [Code |-> 0]]

Returns(v) == [NoOutcome EXCEPT !.k = "val", !.v = v]

Raises(e) == [NoOutcome EXCEPT !.k = "exc", !.e = e]

Hangs == [NoOutcome EXCEPT !.k = "hang"]

\* what the far end of a transport may do with a request: answer with an
\* envelope of Code 1000 (alone or beside another key), 1001 or another Code,
\* with a content type that is not JSON, with a JSON body that does not
\* decode, with a JSON body without Code, refuse the connection or stay
\* silent; a Mock returns {"Code": 1000} or "foobar" or stays silent
Answers(cls) ==
    IF cls = "Mock" THEN {"ok", "foobar", "hang"}
    ELSE {"ok", "ok_more", "code_1001", "code_other", "not_json", "bad_json",
          "no_code", "conn_error", "hang"}

\* non-JSON body, malformed envelope: the API is reached and what it says is
\* broken
ReachableButBroken == {"not_json", "bad_json", "no_code"}

\* AiohttpTransport.async_api_request (AlternativeRoutingTransport calls it
\* on a route): the outcome of the call for an answer
aiohttp_api_request(answer) ==
    CASE answer = "ok" -> Returns(PingOK)
      [] answer = "ok_more" -> Returns([Code |-> 1000, More |-> 1])
      [] answer = "code_1001" -> Returns([Code |-> 1001])
      [] answer = "code_other" -> Raises("ProtonAPIError")
      [] answer = "not_json" -> Raises("ProtonAPINotReachable")
      [] answer = "bad_json" -> Raises("ProtonAPIError")
      [] answer = "no_code" -> Raises("ProtonAPIUnexpectedError")
      [] answer = "conn_error" -> Raises("ProtonAPINotReachable")
      [] OTHER -> Hangs

\* the side_effect of the Mock's async_api_request
mock_api_request(answer) ==
    CASE answer = "ok" -> Returns(PingOK)
      [] answer = "foobar" -> Returns([str |-> "foobar"])
      [] OTHER -> Hangs

transport_api_request(cls, answer) ==
    IF cls = "Mock" THEN mock_api_request(answer) ELSE aiohttp_api_request(answer)

\* the call names return_raw: a TypeError for the classes whose
\* async_api_request does not take it
accepts_return_raw(cls) == cls = "Mock"

\* AutoTransport._ping_via_transport after the sleep: the result of the task
\* for the outcome of transport.async_api_request("/tests/ping") under
\* asyncio.wait_for; a task that returns returns its transport
ping_via_transport(outcome) ==
    IF outcome.k = "hang" THEN Raises("ProtonAPINotReachable")
    ELSE IF outcome.k = "exc" THEN outcome
    ELSE IF outcome.v # PingOK THEN Raises("ProtonAPINotAvailable")
    ELSE [NoOutcome EXCEPT !.k = "transport"]

NoProbe == [pc |-> "none", answer |-> "", result |-> NoOutcome]

NoFind == [pc |-> "idle", by |-> "", results_ok |-> <<>>, results_fail |-> <<>>, exc |-> ""]

NoReq == [pc |-> "idle", tries_left |-> 0, timed_out |-> 0, result |-> NoOutcome]

\* AutoTransport.__init__: no current transport
AutoIdle(choices) ==
    [choices |-> choices, current |-> 0, probe |-> [c \in Choices |-> NoProbe],
     find |-> NoFind, req |-> NoReq]

\* find_available_transport up to its first asyncio.wait: one task per choice
find_start(a, by) ==
    [a EXCEPT !.probe = [c \in Choices |-> [NoProbe EXCEPT !.pc = "sleep"]],
              !.find = [NoFind EXCEPT !.pc = "wait", !.by = by]]

\* the orders a set of done tasks may be iterated in
TaskOrders(S) ==
    {o \in [1..Cardinality(S) -> S] : \A i, j \in DOMAIN o : i # j => o[i] # o[j]}

\* for task in done: the results appended until a task raised something
\* that is neither ProtonAPINotAvailable nor ProtonAPINotReachable
RECURSIVE collect(_, _, _, _)
collect(probe, order, ok, fail) ==
    IF order = <<>> THEN [ok |-> ok, fail |-> fail, exc |-> ""]
    ELSE LET c == Head(order)
             r == probe[c].result
         IN IF r.k = "transport" THEN collect(probe, Tail(order), Append(ok, c), fail)
            ELSE IF r.e \in {"ProtonAPINotAvailable", "ProtonAPINotReachable"}
            THEN collect(probe, Tail(order), ok, Append(fail, c))
            ELSE [ok |-> ok, fail |-> fail, exc |-> r.e]

\* mutant of on_timeout: the transport that timed out stays
on_timeout_keep(current) == current

\* except asyncio.TimeoutError: self._current_transport = None
on_timeout(current) == 0

AutoUnchanged ==
    UNCHANGED <<sessionVars, transportVars, arVars, envVars, ser, persistence_observers, tools>>

\* await auto_transport.find_available_transport(), called by the user of the
\* transport
FindAvailableTransport ==
    /\ auto.find.pc # "wait"
    /\ auto.req.pc \in {"idle", "done"}
    /\ auto' = find_start(auto, "caller")
    /\ AutoUnchanged

\* await asyncio.sleep(timeout) of the task of choice c is over
ProbeSleepDone(c) ==
    /\ auto.find.pc = "wait"
    /\ auto.probe[c].pc = "sleep"
    /\ auto' = [auto EXCEPT !.probe[c].pc = "ping"]
    /\ AutoUnchanged

\* the ping of the task of choice c ends, and the task with it
ProbeDone(c, answer) ==
    /\ auto.find.pc = "wait"
    /\ auto.probe[c].pc = "ping"
    /\ answer \in Answers(auto.choices[c])
    /\ auto' = [auto EXCEPT !.probe[c] = [pc |-> "done", answer |-> answer,
                   result |-> ping_via_transport(
                                  transport_api_request(auto.choices[c], answer))]]
    /\ AutoUnchanged

\* mutant of cancel: the task is left running
cancel_forgotten(task) == task

\* task.cancel() on a pending task: it does not run any further
cancel(task) == [task EXCEPT !.pc = "cancelled"]

\* asyncio.wait returns the tasks that are done, the loop takes their results
\* and goes on waiting or ends: the pending tasks are cancelled, and the
\* first transport of results_ok becomes the current one
FindWake ==
    /\ auto.find.pc = "wait"
    /\ LET done == {c \in Choices : auto.probe[c].pc = "done"}
           pending == {c \in Choices : auto.probe[c].pc \in {"sleep", "ping"}}
           taken == [c \in Choices |-> IF c \in done
                                       THEN [auto.probe[c] EXCEPT !.pc = "taken"]
                                       ELSE auto.probe[c]]
           cancelled == [c \in Choices |-> IF c \in pending
                                           THEN cancel(auto.probe[c])
                                           ELSE taken[c]]
       IN /\ done # {}
          /\ \E order \in TaskOrders(done) :
               LET r == collect(auto.probe, order, auto.find.results_ok,
                                auto.find.results_fail)
                   f == [auto.find EXCEPT !.results_ok = r.ok, !.results_fail = r.fail]
               IN IF r.exc # ""
                  THEN auto' = [auto EXCEPT !.probe = cancelled,
                                   !.find = [f EXCEPT !.pc = "raised", !.exc = r.exc]]
                  ELSE IF pending # {} /\ r.ok = <<>>
                  THEN auto' = [auto EXCEPT !.probe = taken, !.find = f]
                  ELSE IF r.ok = <<>>
                  THEN auto' = [auto EXCEPT !.probe = cancelled,
                                   !.find = [f EXCEPT !.pc = "raised",
                                                !.exc = "ProtonAPINotReachable"]]
                  ELSE auto' = [auto EXCEPT !.probe = cancelled, !.current = r.ok[1],
                                   !.find = [f EXCEPT !.pc = "returned"]]
    /\ AutoUnchanged

\* AutoTransport.async_api_request is called: tries_left = 3
AutoApiRequest ==
    /\ auto.req.pc \in {"idle", "done"}
    /\ auto.find.pc # "wait"
    /\ auto' = [auto EXCEPT !.req = [NoReq EXCEPT !.pc = "loop", !.tries_left = AutoTries]]
    /\ AutoUnchanged

\* the head of the loop: tries_left -= 1, and find_available_transport if
\* there is no current transport
AutoAttempt ==
    /\ auto.req.pc = "loop"
    /\ LET a == [auto EXCEPT !.req.tries_left = @ - 1] IN
       IF auto.current = 0
       THEN auto' = [find_start(a, "request") EXCEPT !.req.pc = "finding"]
       ELSE auto' = [a EXCEPT !.req.pc = "call"]
    /\ AutoUnchanged

\* find_available_transport has ended: the request goes on to the call, or
\* ends with what the selection raised
AutoFound ==
    /\ auto.req.pc = "finding"
    /\ auto.find.by = "request"
    /\ auto.find.pc \in {"returned", "raised"}
    /\ IF auto.find.pc = "returned"
       THEN auto' = [auto EXCEPT !.req.pc = "call"]
       ELSE auto' = [auto EXCEPT !.req.pc = "done", !.req.result = Raises(auto.find.exc)]
    /\ AutoUnchanged

\* self._current_transport.async_api_request(..., return_raw=return_raw) under
\* asyncio.wait_for: the TypeError of a class that does not take return_raw,
\* or what the call returns or raises, or the timeout that resets the current
\* transport and ends the loop when no try is left
AutoCall(answer) ==
    /\ auto.req.pc = "call"
    /\ answer \in Answers(auto.choices[auto.current])
    /\ LET cls == auto.choices[auto.current]
           o == transport_api_request(cls, answer)
       IN IF ~accepts_return_raw(cls)
          THEN auto' = [auto EXCEPT !.req.pc = "done", !.req.result = Raises("TypeError")]
          ELSE IF o.k = "hang"
          THEN auto' = [auto EXCEPT
                   !.current = on_timeout(auto.current),
                   !.req = [@ EXCEPT !.timed_out = @ + 1,
                               !.pc = IF auto.req.tries_left > 0 THEN "loop" ELSE "done",
                               !.result = IF auto.req.tries_left > 0 THEN NoOutcome
                                          ELSE Raises("ProtonAPINotReachable")]]
          ELSE auto' = [auto EXCEPT !.req.pc = "done", !.req.result = o]
    /\ AutoUnchanged

\* ------------------------------------------- __getstate__ and __setstate__
\* A session object is the record of its attributes, with strings for the
\* values: "None" is None, "absent" (-1 for the revision) an attribute that
\* __dict__ does not hold, and the environment is the name of its class.
KnownKeys ==
    {"UID", "AccessToken", "RefreshToken", "Scopes", "AccountName", "Environment",
     "LastUseData"}

\* keys and values a subclass keeps in the extra state
ExtraKeys == {"x", "y"}

ExtraStates == UNION {[ks -> {"v"}] : ks \in SUBSET ExtraKeys}

EmptyMap == [k \in {} |-> "None"]

\* mutant of EntryPoints: the loader returns its preferred environment,
\* whatever the name
EntryPoints_preferred ==
    [n \in {"prod", "atlas", "ci"} |-> "ProdEnvironment"]

\* setup.py, proton_loader_environment: the classes Loader.get finds by name
EntryPoints ==
    [n \in {"prod", "atlas", "ci"} |->
        CASE n = "prod" -> "ProdEnvironment"
          [] n = "atlas" -> "AtlasEnvironment"
          [] n = "ci" -> "CIEnvironment"]

\* Environment.name: the name of the class without 'Environment', in lower
\* case; CustomEnvironment is a subclass no entry point names
EnvironmentName(cls) ==
    CASE cls = "ProdEnvironment" -> "prod"
      [] cls = "AtlasEnvironment" -> "atlas"
      [] cls = "CIEnvironment" -> "ci"
      [] cls = "CustomEnvironment" -> "custom"

\* object.__new__(Session): no attribute yet
Unconstructed ==
    [UID |-> "absent", AccessToken |-> "absent", RefreshToken |-> "absent",
     Scopes |-> "absent", AccountName |-> "absent", environment |-> "absent",
     twoFA |-> "absent", appversion |-> "absent", user_agent |-> "absent",
     refresh_revision |-> -1, extrastate |-> EmptyMap]

\* Session.__init__(appversion, user_agent)
session_init(appversion, user_agent) ==
    [UID |-> "None", AccessToken |-> "None", RefreshToken |-> "None",
     Scopes |-> "None", AccountName |-> "None", environment |-> "None",
     twoFA |-> "None", appversion |-> appversion, user_agent |-> user_agent,
     refresh_revision |-> 0, extrastate |-> EmptyMap]

\* dict.get(k, default)
Get(d, k, default) == IF k \in DOMAIN d THEN d[k] ELSE default

\* the object after __getstate__: self.environment is read when there is a
\* UID, and the getter replaces None by the default environment
getstate_object(o) ==
    IF o.UID = "None" \/ o.environment # "None" THEN o
    ELSE [o EXCEPT !.environment = EntryPoints[DefaultEnvironment]]

\* Session.__getstate__: {} without UID, the session data, the name of the
\* environment and LastUseData otherwise, updated with the extra state
getstate(o) ==
    IF o.UID = "None" THEN EmptyMap
    ELSE [k \in KnownKeys \cup DOMAIN o.extrastate |->
            IF k \in DOMAIN o.extrastate THEN o.extrastate[k]
            ELSE CASE k = "UID" -> o.UID
                   [] k = "AccessToken" -> o.AccessToken
                   [] k = "RefreshToken" -> o.RefreshToken
                   [] k = "Scopes" -> o.Scopes
                   [] k = "AccountName" -> o.AccountName
                   [] k = "Environment" -> EnvironmentName(getstate_object(o).environment)
                   [] k = "LastUseData" ->
                        [twoFA |-> o.twoFA, appversion |-> o.appversion,
                         user_agent |-> o.user_agent,
                         refresh_revision |-> o.refresh_revision]]

\* data.get('LastUseData', {}).get(attr, default)
DefaultLastUseData ==
    [twoFA |-> "None", appversion |-> "Other", user_agent |-> "None",
     refresh_revision |-> 0]

\* Session.__setstate__(data): the object after the call and what the call
\* raised. LastUseData is read for the attributes the object does not hold;
\* Loader.get raises RuntimeError for a name no entry point has, after the
\* session data was assigned and before the environment and the extra state
setstate(o, data) ==
    LET last == Get(data, "LastUseData", DefaultLastUseData)
        o1 == [o EXCEPT
                !.twoFA = IF @ = "absent" THEN last.twoFA ELSE @,
                !.appversion = IF @ = "absent" THEN last.appversion ELSE @,
                !.user_agent = IF @ = "absent" THEN last.user_agent ELSE @,
                !.refresh_revision = IF @ = -1 THEN last.refresh_revision ELSE @,
                !.UID = Get(data, "UID", "None"),
                !.AccessToken = Get(data, "AccessToken", "None"),
                !.RefreshToken = Get(data, "RefreshToken", "None"),
                !.Scopes = Get(data, "Scopes", "None"),
                !.AccountName = Get(data, "AccountName", "None")]
        name == Get(data, "Environment", "None")
    IN  IF name # "None" /\ name \notin DOMAIN EntryPoints
        THEN [obj |-> o1, raised |-> "RuntimeError"]
        ELSE [obj |-> [o1 EXCEPT
                        !.environment = IF name = "None" THEN "None" ELSE EntryPoints[name],
                        !.extrastate = [k \in DOMAIN data \ KnownKeys |-> data[k]]],
              raised |-> ""]

\* the sessions SpecSer starts from: logged in or not, in any environment
SessionObjects ==
    [UID : {"None", "uid"}, AccessToken : {"at"}, RefreshToken : {"rt"},
     Scopes : {"self", "twofactor"}, AccountName : {"None", "acct"},
     environment : {"None", "ProdEnvironment", "AtlasEnvironment", "CustomEnvironment"},
     twoFA : {"None", "totp"}, appversion : {"Other", "app"},
     user_agent : {"None", "agent"}, refresh_revision : 0..MaxRevision,
     extrastate : ExtraStates]

\* ser: the session object, the maps it was serialized to, how it was
\* restored (with the arguments of the constructor), what the restore raised
NoSer(o) == [obj |-> o, saved |-> <<>>, how |-> "", ctor |-> <<>>, raised |-> ""]

AsideIdle ==
    /\ ser = NoSer(session_init("Other", "None"))
    /\ persistence_observers = <<>>
    /\ auto = AutoIdle(DefaultChoices)
    /\ ToolsIdle

\* data = session.__getstate__(), as pickle.dumps and the persistence
\* observers call it
SerGetState ==
    /\ Len(ser.saved) < 2
    /\ ser.raised = ""
    /\ Len(ser.saved) = 1 => ser.how # ""
    /\ ser' = [ser EXCEPT !.obj = getstate_object(@),
                          !.saved = Append(@, getstate(ser.obj))]
    /\ UNCHANGED <<sessionVars, transportVars, arVars, envVars, persistence_observers, auto, tools>>

\* pickle.loads: __setstate__ on an object whose constructor has not run
SerPickleLoads ==
    /\ Len(ser.saved) = 1
    /\ ser.how = ""
    /\ LET r == setstate(Unconstructed, ser.saved[1]) IN
       ser' = [ser EXCEPT !.obj = r.obj, !.raised = r.raised, !.how = "pickle"]
    /\ UNCHANGED <<sessionVars, transportVars, arVars, envVars, persistence_observers, auto, tools>>

\* ProtonSSO.get_session: Session(appversion, user_agent), then __setstate__
\* with the data of the keyring
SerGetSession(appversion, user_agent) ==
    /\ Len(ser.saved) = 1
    /\ ser.how = ""
    /\ LET r == setstate(session_init(appversion, user_agent), ser.saved[1]) IN
       ser' = [ser EXCEPT !.obj = r.obj, !.raised = r.raised, !.how = "get_session",
                          !.ctor = <<appversion, user_agent>>]
    /\ UNCHANGED <<sessionVars, transportVars, arVars, envVars, persistence_observers, auto, tools>>

vars == <<sessionVars, outside>>

\* Spec: NTasks callers run operations concurrently, the server follows the
\* API contract (no reply is a fault, so nothing sleeps before a retry)
Init ==
    /\ SessionInit /\ tasks = [t \in 1..NTasks |-> IdleTask] /\ faults = MaxFaults
    /\ TransportIdle
    /\ ARIdle
    /\ AsideIdle

Next ==
    \/ SetState
    \/ Expire
    \/ \E t \in Tasks : \E op \in Ops : Start(t, op)
    \/ \E t \in Tasks : Yield(t)
    \/ \E t \in Tasks : ServerReply(t)
    \/ \E t \in Tasks : InternalStart(t)
    \/ \E t \in Tasks : InternalWoken(t)
    \/ \E t \in Tasks : InternalReply(t)
    \/ \E t \in Tasks : ApiLoop(t)
    \/ \E t \in Tasks : ApiRet(t)
    \/ \E t \in Tasks : ApiRefreshed(t)
    \/ \E t \in Tasks : RefreshStart(t)
    \/ \E t \in Tasks : RefreshCoalesced(t)
    \/ \E t \in Tasks : RefreshLoop(t)
    \/ \E t \in Tasks : RefreshRet(t)
    \/ \E t \in Tasks : LogoutStart(t)
    \/ \E t \in Tasks : LogoutRet(t)
    \/ \E t \in Tasks : AuthStart(t)
    \/ \E t \in Tasks : AuthLoggedOut(t)
    \/ \E t \in Tasks : AuthInfo(t)
    \/ \E t \in Tasks : AuthReply(t)
    \/ \E t \in Tasks : TfaStart(t)
    \/ \E t \in Tasks : TfaRet(t)
    \/ \E t \in Tasks : LockStart(t)
    \/ \E t \in Tasks : LockPut(t)
    \/ \E t \in Tasks : LockScopes(t)
    \/ \E t \in Tasks : ForkStart(t)
    \/ \E t \in Tasks : ForkRet(t)

Spec == Init /\ [][Next]_vars

\* SpecReq: NReq callers run one plain request each, the server or the
\* network may fail MaxFaults times
InitReq ==
    /\ SessionInit /\ tasks = [t \in 1..NReq |-> IdleTask] /\ faults = 0
    /\ TransportIdle
    /\ ARIdle
    /\ AsideIdle

NextReq ==
    \/ SetState
    \/ Expire
    \/ \E t \in Tasks : tasks[t].susp = "idle" /\ Start(t, "request")
    \/ \E t \in Tasks : Yield(t)
    \/ \E t \in Tasks : ServerReply(t)
    \/ \E t \in Tasks : InternalStart(t)
    \/ \E t \in Tasks : InternalWoken(t)
    \/ \E t \in Tasks : InternalReply(t)
    \/ \E t \in Tasks : SleepDone(t)
    \/ \E t \in Tasks : ApiLoop(t)
    \/ \E t \in Tasks : ApiRet(t)
    \/ \E t \in Tasks : ApiRefreshed(t)
    \/ \E t \in Tasks : RefreshStart(t)
    \/ \E t \in Tasks : RefreshCoalesced(t)
    \/ \E t \in Tasks : RefreshLoop(t)
    \/ \E t \in Tasks : RefreshRet(t)

SpecReq == InitReq /\ [][NextReq]_vars

\* SpecSeq: one caller runs operations one after the other (it never waits
\* for another caller), the server or the network may fail MaxFaults times
InitSeq ==
    /\ SessionInit /\ tasks = [t \in {1} |-> IdleTask] /\ faults = 0
    /\ TransportIdle
    /\ ARIdle
    /\ AsideIdle

NextSeq ==
    \/ SetState
    \/ Expire
    \/ \E op \in Ops : Start(1, op)
    \/ Yield(1)
    \/ ServerReply(1)
    \/ InternalStart(1)
    \/ InternalReply(1)
    \/ SleepDone(1)
    \/ ApiLoop(1)
    \/ ApiRet(1)
    \/ ApiRefreshed(1)
    \/ RefreshStart(1)
    \/ RefreshLoop(1)
    \/ RefreshRet(1)
    \/ LogoutStart(1)
    \/ LogoutRet(1)
    \/ AuthStart(1)
    \/ AuthLoggedOut(1)
    \/ AuthInfo(1)
    \/ AuthReply(1)
    \/ TfaStart(1)
    \/ TfaRet(1)
    \/ LockStart(1)
    \/ LockPut(1)
    \/ LockScopes(1)
    \/ ForkStart(1)
    \/ ForkRet(1)

SpecSeq == InitSeq /\ [][NextSeq]_vars

\* SpecApi: one caller runs plain requests one after the other, and the
\* server may answer them with MaxApiFaults error envelopes of any kind
InitApi ==
    /\ SessionInit /\ tasks = [t \in {1} |-> IdleTask] /\ faults = 0
    /\ TransportIdle
    /\ ARIdle
    /\ AsideIdle

NextApi ==
    \/ SetState
    \/ Expire
    \/ Start(1, "request")
    \/ Yield(1)
    \/ ServerReply(1)
    \/ ServerFault(1)
    \/ InternalStart(1)
    \/ InternalReply(1)
    \/ SleepDone(1)
    \/ ApiLoop(1)
    \/ ApiRet(1)
    \/ ApiRefreshed(1)
    \/ RefreshStart(1)
    \/ RefreshLoop(1)
    \/ RefreshRet(1)

SpecApi == InitApi /\ [][NextApi]_vars

\* SpecEnv: the environment of a session is read, set and restored
InitEnv ==
    /\ SessionInit /\ tasks = [t \in {1} |-> IdleTask] /\ faults = 0
    /\ TransportIdle
    /\ ARIdle
    /\ AsideIdle

NextEnv ==
    \/ EnvironmentGet
    \/ \E v \in EnvironmentNames \cup {"None", "object"} : EnvironmentSet(v)
    \/ \E data \in SerializedStates : RestoreState(data)

SpecEnv == InitEnv /\ [][NextEnv]_vars

\* SpecSer: a session is serialized, restored from the map (by pickle or by
\* the SSO) and serialized again
InitSer ==
    /\ SessionInit /\ tasks = [t \in {1} |-> IdleTask] /\ faults = 0
    /\ TransportIdle
    /\ ARIdle
    /\ ser \in {NoSer(o) : o \in SessionObjects}
    /\ persistence_observers = <<>>
    /\ auto = AutoIdle(DefaultChoices)
    /\ ToolsIdle

NextSer ==
    \/ SerGetState
    \/ SerPickleLoads
    \/ \E a \in {"Other", "app"} : \E u \in {"None", "agent"} : SerGetSession(a, u)

SpecSer == InitSer /\ [][NextSer]_vars

\* ------------------------------------------------- transports/utils/dns.py
\* what a call of the parser does: it returns a value, raises an exception of
\* the named class, or never returns
returned(v) == [k |-> "val", v |-> v]

raised(e) == [k |-> "exc", e |-> e]

never_returns == [k |-> "loops"]

not_called == [k |-> "none"]

\* the variables no tool of this section touches
rest == <<sessionVars, transportVars, arVars, envVars, ser, persistence_observers, auto>>

RestIdle ==
    /\ SessionInit /\ tasks = [t \in {1} |-> IdleTask] /\ faults = 0
    /\ TransportIdle
    /\ ARIdle
    /\ ser = NoSer(session_init("Other", "None"))
    /\ persistence_observers = <<>>
    /\ auto = AutoIdle(DefaultChoices)

\* the characters of the strings given to the hostname check: a letter, a
\* digit, the hyphen, the dot, the slash, the space, the line feed ("LF"), a
\* decimal digit outside ASCII (ARABIC-INDIC DIGIT THREE) and "?" for any other
\* ASCII character
HostChars == {"a", "1", "-", ".", "/", " ", "LF", "U+0663", "?"}

\* [A-Z\d-] of a str pattern compiled with re.IGNORECASE: the ASCII letters,
\* the hyphen and every Unicode decimal digit
segment_class(c) == c \in {"a", "1", "-", "U+0663"}

\* the end-of-string anchor of the pattern at position n (the number of
\* characters consumed): $ matches at the end and just before a line feed that
\* ends the string
matches_at_end(segment, n) ==
    \/ n = Len(segment)
    \/ n = Len(segment) - 1 /\ segment[Len(segment)] = "LF"

\* _VALID_HOSTNAME_SEGMENT.match(segment): (?!-)[A-Z\d-]{1,63}(?<!-)$
\* matched from the start of the segment
segment_match(segment) ==
    \E n \in 1..Len(segment) :
        /\ n <= SegmentMax
        /\ \A i \in 1..n : segment_class(segment[i])
        /\ segment[1] # "-"
        /\ segment[n] # "-"
        /\ matches_at_end(segment, n)

\* str.split(".")
RECURSIVE split(_)
split(str) ==
    IF \A i \in DOMAIN str : str[i] # "." THEN <<str>>
    ELSE LET i == CHOOSE i \in DOMAIN str : str[i] = "." /\ \A j \in 1..(i - 1) : str[j] # "."
         IN  <<SubSeq(str, 1, i - 1)>> \o split(SubSeq(str, i + 1, Len(str)))

\* DNSParser._is_valid_hostname(hostname)
is_valid_hostname(hostname) ==
    IF Len(hostname) > HostnameMax THEN returned(FALSE)
    ELSE IF hostname = <<>> THEN raised("IndexError")
    ELSE LET stripped == IF hostname[Len(hostname)] = "."
                         THEN SubSeq(hostname, 1, Len(hostname) - 1)
                         ELSE hostname
             segments == split(stripped)
         IN  returned(\A i \in DOMAIN segments : segment_match(segments[i]))

\* n times the character c
Rep(c, n) == [i \in 1..n |-> c]

\* the hostnames checked: every string of at most MaxHostLen characters and
\* the long ones around the two limits
Hostnames ==
    SeqsUpTo(HostChars, MaxHostLen)
    \cup {Rep("a", SegmentMax), Rep("a", SegmentMax + 1),
          Rep("a", SegmentMax) \o <<".">>,
          Rep("a", SegmentMax + 1) \o <<".", "a">>}
    \cup {Rep("a", 63) \o <<".">> \o Rep("a", 63) \o <<".">> \o Rep("a", 63) \o <<".">> \o tail :
            tail \in {Rep("a", 63), Rep("a", 62) \o <<".">>, Rep("a", 63) \o <<".">>,
                      Rep("a", 64), Rep("a", 62) \o <<"LF">>}}

HostnameIdle(hostname) == [hostname |-> hostname, pc |-> "ready", result |-> not_called]

\* one call of DNSParser._is_valid_hostname
IsValidHostname ==
    /\ hn.pc = "ready"
    /\ hn' = [hn EXCEPT !.pc = "done", !.result = is_valid_hostname(hn.hostname)]
    /\ UNCHANGED <<rest, dnsp, gn, ld, sso>>

InitHost ==
    /\ RestIdle
    /\ hn \in {HostnameIdle(h) : h \in Hostnames}
    /\ dnsp = "unused" /\ gn = "unused" /\ ld = "unused" /\ sso = "unused"

NextHost == IsValidHostname

SpecHost == InitHost /\ [][NextHost]_vars

\* the frame of one call of _get_name (impl "dns") or of _dns_parse_name (impl
\* "ar"): its buffer, its locals, whether it is still running and its result
NameCall(impl, buffer, offset) ==
    [impl |-> impl, buffer |-> buffer, offset |-> offset, parsed_length |-> 0,
     has_jumped |-> FALSE, parts |-> <<>>, pc |-> "loop", result |-> not_called]

\* the test of the while loop: still in the buffer and not on a null byte
\* (offsets count from 0 as in the code)
in_name(s) == s.offset < Len(s.buffer) /\ s.buffer[s.offset + 1] # 0

\* the exception of a label that runs past the buffer
truncated_label(impl) ==
    IF impl = "dns" THEN raised("DNSParsingException") ELSE raised("ProtonAPINotReachable")

\* the target of the compression pointer at s.offset:
\* ((buffer[offset] & 0b0011_1111) << 8) + buffer[offset + 1]
pointer_target(s) == (s.buffer[s.offset + 1] - 192) * 256 + s.buffer[s.offset + 2]

\* one test of the loop condition followed by one run of the loop body, or by
\* the return when the test fails
name_step(s) ==
    IF ~in_name(s)
    THEN [s EXCEPT !.pc = "done",
                   !.result = returned([length |-> s.parsed_length + (IF s.has_jumped THEN 0 ELSE 1),
                                        parts |-> s.parts])]
    ELSE LET length == s.buffer[s.offset + 1] IN
         IF length >= 192
         THEN IF s.offset + 2 > Len(s.buffer)
              THEN [s EXCEPT !.pc = "done", !.result = raised("IndexError")]
              ELSE [s EXCEPT !.offset = pointer_target(s),
                             !.parsed_length = IF s.has_jumped THEN @ ELSE @ + 2,
                             !.has_jumped = TRUE]
         ELSE IF s.offset + 1 + length > Len(s.buffer)
              THEN [s EXCEPT !.pc = "done", !.result = truncated_label(s.impl)]
              ELSE [s EXCEPT !.parts = Append(@, SubSeq(s.buffer, s.offset + 2, s.offset + 1 + length)),
                             !.parsed_length = IF s.has_jumped THEN @ ELSE @ + length + 1,
                             !.offset = @ + length + 1]

\* the whole call: the loop returns to an offset it has visited exactly when it
\* never ends, because what it does from an offset depends on the buffer alone
RECURSIVE run_name(_, _)
run_name(s, visited) ==
    IF s.pc = "done" THEN s.result
    ELSE IF s.offset \in visited THEN never_returns
    ELSE run_name(name_step(s), visited \cup {s.offset})

\* DNSParser._get_name(buffer, offset)
get_name(buffer, offset) == run_name(NameCall("dns", buffer, offset), {})

\* the bytes of the buffers given to the name decoder: the terminator, two
\* label lengths, a letter and the first byte of a compression pointer
NameBytes == {0, 1, 2, 97, 192}

\* one iteration of the while loop of _get_name or _dns_parse_name, or its
\* return
GetNameStep ==
    /\ gn.pc = "loop"
    /\ Len(gn.parts) < MaxParts
    /\ gn' = name_step(gn)
    /\ UNCHANGED <<rest, dnsp, hn, ld, sso>>

InitName ==
    /\ RestIdle
    /\ gn \in {NameCall(impl, buffer, offset) :
                 impl \in {"dns", "ar"}, buffer \in SeqsUpTo(NameBytes, MaxBuf), offset \in 0..MaxBuf}
    /\ dnsp = "unused" /\ hn = "unused" /\ ld = "unused" /\ sso = "unused"

NextName == GetNameStep

SpecName == InitName /\ [][NextName]_vars

\* the decoder runs on: the loop is a plain while loop on one thread
FairName == SpecName /\ WF_vars(GetNameStep)

\* the big-endian unsigned 16-bit integer at a 0-based offset (struct '>H')
u16(bytes, offset) == bytes[offset + 1] * 256 + bytes[offset + 2]

\* the big-endian unsigned 32-bit integer at a 0-based offset (struct '>I')
u32(bytes, offset) == u16(bytes, offset) * 65536 + u16(bytes, offset + 2)

parsing_error == raised("DNSParsingException")

\* the loop that skips the questions: the offset after them, or what _get_name
\* did instead of returning
RECURSIVE skip_questions(_, _, _)
skip_questions(reply_data, offset, dns_qdcount) ==
    IF dns_qdcount = 0 THEN returned(offset)
    ELSE LET name == get_name(reply_data, offset) IN
         IF name.k # "val" THEN name
         ELSE skip_questions(reply_data, offset + name.v.length + 4, dns_qdcount - 1)

\* the branch of the answers loop for an IN TXT record
txt_record(record, rec_ttl, rec_dlen) ==
    IF record = <<>> THEN raised("IndexError")
    ELSE IF record[1] # rec_dlen - 1 \/ record[1] # Len(record) - 1 THEN parsing_error
    ELSE IF undecodable(Tail(record)) THEN parsing_error
    ELSE LET hostname == decode(Tail(record))
             valid == is_valid_hostname(hostname)
         IN  IF valid.k = "exc" THEN valid
             ELSE IF ~valid.v THEN parsing_error
             ELSE returned(<< <<rec_ttl, hostname>> >>)

\* the branch for an IN A record
a_record(record, rec_ttl) ==
    IF Len(record) # 4 THEN parsing_error ELSE returned(<< <<rec_ttl, record>> >>)

\* the answers loop: the answers collected, or what ended the loop early
RECURSIVE parse_records(_, _, _, _)
parse_records(reply_data, offset, dns_ancount, answers) ==
    IF dns_ancount = 0 THEN returned(answers)
    ELSE LET name == get_name(reply_data, offset) IN
         IF name.k # "val" THEN name
         ELSE LET header == offset + name.v.length IN
              IF Len(reply_data) - header < 10 THEN parsing_error
              ELSE LET rec_type == u16(reply_data, header)
                       rec_class == u16(reply_data, header + 2)
                       rec_ttl == u32(reply_data, header + 4)
                       rec_dlen == u16(reply_data, header + 8)
                       data == header + 10
                       record == SubSeq(reply_data, data + 1, data + rec_dlen)
                   IN  IF data + rec_dlen > Len(reply_data) THEN parsing_error
                       ELSE LET answer == IF rec_type = 16 /\ rec_class = 1
                                          THEN txt_record(record, rec_ttl, rec_dlen)
                                          ELSE IF rec_type = 1 /\ rec_class = 1
                                          THEN a_record(record, rec_ttl)
                                          ELSE returned(<<>>)
                            IN  IF answer.k # "val" THEN answer
                                ELSE parse_records(reply_data, data + rec_dlen, dns_ancount - 1,
                                                   answers \o answer.v)

\* DNSParser.parse(reply_data)
parse(reply_data) ==
    IF Len(reply_data) < MINIMUM_RECORD_LENGTH THEN parsing_error
    ELSE IF reply_data[4] % 16 # 0 THEN raised("DNSResponseError")
    ELSE LET dns_qdcount == u16(reply_data, 4)
             dns_ancount == u16(reply_data, 6)
             questions == skip_questions(reply_data, 12, dns_qdcount)
         IN  IF questions.k # "val" THEN questions
             ELSE parse_records(reply_data, questions.v, dns_ancount, <<>>)

\* the header of a reply: transaction ID 0, flags 0x81 and 0x80 + RCODE, the
\* four counts
ReplyHeader(rcode, qdcount, ancount) ==
    <<0, 0, 129, 128 + rcode, 0, qdcount, 0, ancount, 0, 0, 0, 0>>

\* the question "a IN TXT"
Question == <<1, 97, 0, 0, 16, 0, 1>>

\* a record header: type, class IN, TTL, RDLENGTH
RecordHeader(type, ttl, dlen) == <<0, type, 0, 1, 0, 0, 0, ttl, 0, dlen>>

\* record data: nothing, an empty character string, the strings "a", "a" and a
\* line feed, "/" and a byte that is not ASCII, a string shorter than its
\* length byte, and four bytes of an address
RecordData ==
    {<<>>, <<0>>, <<1, 97>>, <<2, 97, 10>>, <<1, 47>>, <<1, 200>>, <<2, 97>>, <<1, 2, 3, 4>>}

\* the replies a resolver (or whoever answers in its place) may send, whole
WholeReplies ==
    {ReplyHeader(0, qdcount, ancount) \o (IF qdcount = 1 THEN Question ELSE <<>>)
        \o name \o RecordHeader(type, 1, Len(data) + more) \o data :
        qdcount \in {0, 1}, ancount \in 0..MaxRecords, name \in {<<192, 12>>, <<1, 97, 0>>},
        type \in {16, 1, 5}, data \in RecordData, more \in {0, 1}}
    \cup {ReplyHeader(rcode, 1, 0) \o Question : rcode \in {2, 3}}

\* and cut short after any number of bytes
Replies == UNION {{SubSeq(reply, 1, n) : n \in 0..Len(reply)} : reply \in WholeReplies}

\* one call of DNSParser.parse
DnsParse ==
    /\ dnsp.pc = "ready"
    /\ dnsp' = [dnsp EXCEPT !.pc = "done", !.result = parse(dnsp.reply_data)]
    /\ UNCHANGED <<rest, gn, hn, ld, sso>>

InitDns ==
    /\ RestIdle
    /\ dnsp \in {[reply_data |-> reply, pc |-> "ready", result |-> not_called] : reply \in Replies}
    /\ gn = "unused" /\ hn = "unused" /\ ld = "unused" /\ sso = "unused"

NextDns == DnsParse

SpecDns == InitDns /\ [][NextDns]_vars

\* ------------------------------------------------------- loader/loader.py
\* the entry point names of one component type, in the order sort() gives
\* strings
ClassNames == <<"a", "b", "c">>

name_rank(class_name) == CHOOSE i \in DOMAIN ClassNames : ClassNames[i] = class_name

\* what _get_priority returns: None (here -1000) or a number
NoPriority == -1000

\* the tuples being sorted are (priority, class_name, cls): the larger
\* priority first and, for equal priorities, the larger class name first
sorts_before(x, y) ==
    \/ x.priority > y.priority
    \/ x.priority = y.priority /\ name_rank(x.class_name) > name_rank(y.class_name)

\* list.sort(reverse=True) of a set of entries with distinct class names
RECURSIVE sorted_entries(_)
sorted_entries(S) ==
    IF S = {} THEN <<>>
    ELSE LET first == CHOOSE x \in S : \A y \in S \ {x} : sorts_before(x, y)
         IN  <<first>> \o sorted_entries(S \ {first})

\* the names the overrides of the type force, and those they exclude
forced(overrides) == {o.class_name : o \in {x \in overrides : ~x.exclude}}

excluded(overrides) == {o.class_name : o \in {x \in overrides : x.exclude}}

\* the entry points get_all takes for acceptable; when one class is forced and
\* it is not a known one, the local variable is never bound (NameError)
acceptable_entry_points(known, overrides) ==
    IF Cardinality(forced(overrides)) = 1
    THEN IF forced(overrides) \subseteq known THEN returned(forced(overrides))
         ELSE raised("NameError")
    ELSE IF Cardinality(forced(overrides)) > 1 THEN raised("RuntimeError")
    ELSE returned(known \ excluded(overrides))

\* Loader.get_all(type_name): the entries with a priority, highest first, then
\* the entries without
get_all(known, priority, overrides) ==
    LET acceptable == acceptable_entry_points(known, overrides) IN
    IF acceptable.k # "val" THEN acceptable
    ELSE LET entries == {[priority |-> IF k \in acceptable.v THEN priority[k] ELSE NoPriority,
                          class_name |-> k] : k \in known}
         IN  returned(sorted_entries({e \in entries : e.priority # NoPriority})
                      \o sorted_entries({e \in entries : e.priority = NoPriority}))

\* the loop of Loader.get without a class name over the entries from index i:
\* the class returned and the known types left, an entry whose _validate
\* fails being removed from them
RECURSIVE first_valid(_, _, _, _)
first_valid(entries, i, validate, known) ==
    IF i > Len(entries) THEN [result |-> raised("RuntimeError"), known |-> known]
    ELSE IF entries[i].priority = NoPriority THEN first_valid(entries, i + 1, validate, known)
    ELSE IF validate[entries[i].class_name] \in {"absent", "True"}
         THEN [result |-> returned(entries[i].class_name), known |-> known]
         ELSE first_valid(entries, i + 1, validate, known \ {entries[i].class_name})

\* the overrides of one type in PROTON_LOADER_OVERRIDES
Override(exclude, class_name) == [exclude |-> exclude, class_name |-> class_name]

OverrideSets ==
    {{}} \cup {{Override(e, c)} : e \in BOOLEAN, c \in {"a", "b", "q"}}
    \cup {{Override(FALSE, "a"), Override(FALSE, "b")}, {Override(TRUE, "a"), Override(TRUE, "b")}}

\* Loader.get(type_name)
LoaderGet ==
    /\ ld.pc = "ready"
    /\ LET all == get_all(ld.known, ld.priority, ld.overrides) IN
       IF all.k # "val"
       THEN ld' = [ld EXCEPT !.pc = "done", !.result = all]
       ELSE LET got == first_valid(all.v, 1, ld.validate, ld.known) IN
            ld' = [ld EXCEPT !.pc = "done", !.result = got.result, !.known = got.known]
    /\ UNCHANGED <<rest, dnsp, gn, hn, sso>>

\* a later call of Loader.get(type_name), on the implementations the first
\* left
LoaderGetAgain ==
    /\ ld.pc = "done"
    /\ ld.calls < MaxLoaderCalls
    /\ ld' = [ld EXCEPT !.pc = "ready", !.calls = @ + 1, !.result = not_called, !.before = ld.known]
    /\ UNCHANGED <<rest, dnsp, gn, hn, sso>>

InitLoader ==
    /\ RestIdle
    /\ \E known \in SUBSET {"a", "b", "c"} :
       \E priority \in [{"a", "b", "c"} -> {NoPriority, -100, 10}] :
       \E validate \in [{"a", "b", "c"} -> {"absent", "True", "False"}] :
       \E overrides \in OverrideSets :
           /\ validate["c"] = "absent"
           /\ ld = [known |-> known, before |-> known, priority |-> priority, validate |-> validate,
                    overrides |-> overrides, pc |-> "ready", calls |-> 1, result |-> not_called]
    /\ dnsp = "unused" /\ gn = "unused" /\ hn = "unused" /\ sso = "unused"

NextLoader == LoaderGet \/ LoaderGetAgain

SpecLoader == InitLoader /\ [][NextLoader]_vars

\* ---------------------------------------------------------------- sso/sso.py
\* account names; "" stands for an account name that is None or empty
Accounts == {"a", "b"}

\* session data as the observer receives it: None, an empty map, two maps
\* whose AccountName is the account they are given for, and a map without a
\* valid AccountName
SessionData == {"None", "empty", "D1", "D2", "bad"}

no_data(data) == data \in {"None", "empty"}

\* everything but one element of a list
without(list, x) == SelectSeq(list, LAMBDA y : y # x)

\* ProtonSSO._get_session_data(account_name): the keyring classes of the
\* repository have no get_keyring_data, the AttributeError is caught by the
\* except Exception clause and the method returns an empty map
get_session_data(account_name, entries) == "empty"

SsoIdle ==
    [index |-> <<>>, entries |-> [x \in Accounts |-> "absent"],
     session_data_cache |-> [x \in Accounts |-> "absent"],
     adv_locks |-> {}, flocked |-> {}, other |-> "idle",
     listed |-> <<>>, last |-> [op |-> "", account_name |-> "", result |-> not_called], n |-> 0]

SsoCalled(op, account_name, result) == [op |-> op, account_name |-> account_name, result |-> result]

\* ProtonSSO._acquire_session_lock(account_name, current_data): the lock file
\* is opened anew (which closes the file of an earlier acquisition and so
\* drops its lock) and locked, which blocks while the other process holds it
AcquireSessionLock(account_name, current_data) ==
    /\ sso.n < MaxSsoOps
    /\ IF account_name = ""
       THEN sso' = [sso EXCEPT !.n = @ + 1, !.last = SsoCalled("acquire", account_name, returned("None"))]
       ELSE /\ ~(account_name = "a" /\ sso.other = "holding")
            /\ sso' = [sso EXCEPT !.n = @ + 1,
                          !.adv_locks = @ \cup {account_name},
                          !.flocked = @ \cup {account_name},
                          !.session_data_cache[account_name] = current_data,
                          !.last = SsoCalled("acquire", account_name, returned("None"))]
    /\ UNCHANGED <<rest, dnsp, gn, hn, ld>>

\* the part of _release_session_lock under the global lock: the keyring entry
\* and the index after it
store_release(s, account_name, new_data) ==
    IF no_data(new_data)
    THEN [s EXCEPT !.index = without(@, account_name), !.entries[account_name] = "absent"]
    ELSE [s EXCEPT !.index = IF \E i \in DOMAIN @ : @[i] = account_name THEN @
                             ELSE Append(@, account_name),
                   !.entries[account_name] = new_data]

\* the list C34 describes, kept beside the program: an account is added at
\* the end when a release carries data for it, removed when a release carries
\* none, and moved to the front by set_default_account
listed_after_release(listed, account_name, new_data) ==
    IF no_data(new_data) THEN without(listed, account_name)
    ELSE IF \E i \in DOMAIN listed : listed[i] = account_name THEN listed
    ELSE Append(listed, account_name)

\* ProtonSSO._release_session_lock(account_name, new_data)
ReleaseSessionLock(account_name, new_data) ==
    /\ sso.n < MaxSsoOps
    /\ IF account_name = ""
       THEN sso' = [sso EXCEPT !.n = @ + 1, !.last = SsoCalled("release", account_name, returned("None"))]
       ELSE IF new_data = "bad"
       THEN sso' = [sso EXCEPT !.n = @ + 1, !.last = SsoCalled("release", account_name, raised("ValueError"))]
       ELSE IF sso.session_data_cache[account_name] = new_data
       THEN sso' = [sso EXCEPT !.n = @ + 1,
                       !.listed = listed_after_release(@, account_name, new_data),
                       !.last = SsoCalled("release", account_name, returned("None"))]
       ELSE sso' = [store_release(sso, account_name, new_data) EXCEPT
                       !.n = @ + 1,
                       !.session_data_cache[account_name] = "absent",
                       !.flocked = @ \ {account_name},
                       !.listed = listed_after_release(@, account_name, new_data),
                       !.last = SsoCalled("release", account_name, returned("None"))]
    /\ UNCHANGED <<rest, dnsp, gn, hn, ld>>

\* ProtonSSO.set_default_account(account_name)
SetDefaultAccount(account_name) ==
    /\ sso.n < MaxSsoOps
    /\ IF \E i \in DOMAIN sso.index : sso.index[i] = account_name
       THEN sso' = [sso EXCEPT !.n = @ + 1,
                       !.index = <<account_name>> \o without(@, account_name),
                       !.listed = IF \E i \in DOMAIN @ : @[i] = account_name
                                  THEN <<account_name>> \o without(@, account_name) ELSE @,
                       !.last = SsoCalled("set_default_account", account_name, returned("None"))]
       ELSE sso' = [sso EXCEPT !.n = @ + 1,
                       !.last = SsoCalled("set_default_account", account_name, raised("KeyError"))]
    /\ UNCHANGED <<rest, dnsp, gn, hn, ld>>

\* the property ProtonSSO.sessions: the index without the accounts whose
\* session data is empty, which are also removed from the keyring
Sessions ==
    /\ sso.n < MaxSsoOps
    /\ LET cleaned_index == SelectSeq(sso.index,
                                LAMBDA x : get_session_data(x, sso.entries) # "empty")
           removed == {sso.index[i] : i \in DOMAIN sso.index}
                        \ {cleaned_index[i] : i \in DOMAIN cleaned_index}
       IN  sso' = [sso EXCEPT !.n = @ + 1,
                      !.index = cleaned_index,
                      !.entries = [x \in Accounts |-> IF x \in removed THEN "absent" ELSE @[x]],
                      !.last = SsoCalled("sessions", "", returned(cleaned_index))]
    /\ UNCHANGED <<rest, dnsp, gn, hn, ld>>

\* another process locks account "a" as _acquire_session_lock does: it starts
\* waiting, is granted the lock when no one holds it, and releases it
OtherWaits ==
    /\ sso.other = "idle"
    /\ sso' = [sso EXCEPT !.other = "waiting"]
    /\ UNCHANGED <<rest, dnsp, gn, hn, ld>>

OtherGranted ==
    /\ sso.other = "waiting"
    /\ "a" \notin sso.flocked
    /\ sso' = [sso EXCEPT !.other = "holding"]
    /\ UNCHANGED <<rest, dnsp, gn, hn, ld>>

OtherReleases ==
    /\ sso.other = "holding"
    /\ sso' = [sso EXCEPT !.other = "idle"]
    /\ UNCHANGED <<rest, dnsp, gn, hn, ld>>

InitSso ==
    /\ RestIdle
    /\ sso = SsoIdle
    /\ dnsp = "unused" /\ gn = "unused" /\ hn = "unused" /\ ld = "unused"

NextSso ==
    \/ \E account_name \in Accounts \cup {""} : \E data \in SessionData \ {"bad"} :
           AcquireSessionLock(account_name, data)
    \/ \E account_name \in Accounts \cup {""} : \E data \in SessionData :
           ReleaseSessionLock(account_name, data)
    \/ \E account_name \in Accounts : SetDefaultAccount(account_name)
    \/ Sessions
    \/ OtherWaits
    \/ OtherGranted
    \/ OtherReleases

SpecSso == InitSso /\ [][NextSso]_vars

\* Session.register_persistence_observer(observer), called while no coroutine
\* holds the loop
RegisterObserver(observer) ==
    /\ cur = 0
    /\ Len(persistence_observers) < MaxObservers
    /\ persistence_observers' = Append(persistence_observers, observer)
    /\ UNCHANGED <<sessionVars, transportVars, arVars, envVars, ser, auto, tools>>

\* SpecObs: one caller runs operations one after the other on a session
\* persistence observers are registered with, before and during the operations
InitObs ==
    /\ SessionInit /\ tasks = [t \in {1} |-> IdleTask] /\ faults = 0
    /\ TransportIdle
    /\ ARIdle
    /\ AsideIdle

NextObs ==
    \/ \E observer \in Observers : RegisterObserver(observer)
    \/ NextSeq

SpecObs == InitObs /\ [][NextObs]_vars

\* SpecAuto: an automatic transport over any NChoices classes selects a
\* transport, on the call of find_available_transport or for a request
InitAuto ==
    /\ SessionInit /\ tasks = [t \in {1} |-> IdleTask] /\ faults = 0
    /\ TransportIdle
    /\ ARIdle
    /\ ser = NoSer(session_init("Other", "None"))
    /\ persistence_observers = <<>>
    /\ auto \in {AutoIdle(choices) : choices \in [Choices -> TransportClasses]}
    /\ ToolsIdle

NextAuto ==
    \/ FindAvailableTransport
    \/ \E c \in Choices : ProbeSleepDone(c)
    \/ \E c \in Choices : \E answer \in Answers("Mock") \cup Answers("AiohttpTransport") :
          ProbeDone(c, answer)
    \/ FindWake
    \/ AutoApiRequest
    \/ AutoAttempt
    \/ AutoFound
    \/ \E answer \in Answers("Mock") \cup Answers("AiohttpTransport") : AutoCall(answer)

SpecAuto == InitAuto /\ [][NextAuto]_vars

\* SpecRev: two callers, the first runs any operations one after the other
\* and the second runs plain requests beside it; the server or the network
\* may fail MaxFaults times
InitRev ==
    /\ SessionInit /\ tasks = [t \in 1..2 |-> IdleTask] /\ faults = 0
    /\ TransportIdle
    /\ ARIdle
    /\ AsideIdle

NextRev ==
    \/ SetState
    \/ Expire
    \/ \E op \in Ops : Start(1, op)
    \/ tasks[2].susp = "idle" /\ Start(2, "request")
    \/ \E t \in Tasks : Yield(t)
    \/ \E t \in Tasks : ServerReply(t)
    \/ \E t \in Tasks : InternalStart(t)
    \/ \E t \in Tasks : InternalWoken(t)
    \/ \E t \in Tasks : InternalReply(t)
    \/ \E t \in Tasks : SleepDone(t)
    \/ \E t \in Tasks : ApiLoop(t)
    \/ \E t \in Tasks : ApiRet(t)
    \/ \E t \in Tasks : ApiRefreshed(t)
    \/ \E t \in Tasks : RefreshStart(t)
    \/ \E t \in Tasks : RefreshCoalesced(t)
    \/ \E t \in Tasks : RefreshLoop(t)
    \/ \E t \in Tasks : RefreshRet(t)
    \/ \E t \in Tasks : LogoutStart(t)
    \/ \E t \in Tasks : LogoutRet(t)
    \/ \E t \in Tasks : AuthStart(t)
    \/ \E t \in Tasks : AuthLoggedOut(t)
    \/ \E t \in Tasks : AuthInfo(t)
    \/ \E t \in Tasks : AuthReply(t)
    \/ \E t \in Tasks : TfaStart(t)
    \/ \E t \in Tasks : TfaRet(t)
    \/ \E t \in Tasks : LockStart(t)
    \/ \E t \in Tasks : LockPut(t)
    \/ \E t \in Tasks : LockScopes(t)
    \/ \E t \in Tasks : ForkStart(t)
    \/ \E t \in Tasks : ForkRet(t)

SpecRev == InitRev /\ [][NextRev]_vars

\* SpecPin: requests of an aiohttp transport, for every pin set of the
\* environment and every leaf key and chain the server may present
InitPin ==
    /\ SessionInit /\ tasks = [t \in {1} |-> IdleTask] /\ faults = 0
    /\ tls_pinning_hashes \in PinSets
    /\ server \in [leaf : Keys, chain_ok : BOOLEAN]
    /\ tr = IdleRequest
    /\ ARIdle
    /\ AsideIdle

NextPin ==
    \/ TransportCall
    \/ SessionTransportCall
    \/ TlsConnect
    \/ FingerprintCheck
    \/ TransportResponse

SpecPin == InitPin /\ [][NextPin]_vars

\* SpecAR: requests of an alternative routing transport, whose route cache
\* is filled from the replies of the DNS resolvers
InitAR ==
    /\ SessionInit /\ tasks = [t \in {1} |-> IdleTask] /\ faults = 0
    /\ TransportIdle
    /\ ARIdle
    /\ AsideIdle

NextAR ==
    \/ ARCall
    \/ DnsQueryDone
    \/ RoundWake
    \/ ARSend
    \/ Tick

SpecAR == InitAR /\ [][NextAR]_vars

\* SpecRace: either an automatic transport selects among its choices or an
\* alternative routing transport resolves its routes
InitRace == InitAuto

NextRace ==
    \/ ARIdle /\ NextAuto
    \/ auto = AutoIdle(DefaultChoices) /\ NextAR

SpecRace == InitRace /\ [][NextRace]_vars

\* ====================================================== properties checked
\* the callers that have called an operation, and whether all of them are done
Started == {t \in Tasks : tasks[t].susp # "idle"}

AllDone == Started # {} /\ \A t \in Started : tasks[t].susp = "done"

\* the last transport call of task t
LastCall(t) == tasks[t].log[Len(tasks[t].log)]

C5_OneRefreshPerToken ==
    \A g \in 1..MaxGen : \A t \in Tasks :
        g \in tasks[t].waited => g \notin tasks[t].own

\* C2 (Spec): at any time at most one state-mutating sequence of the session
\* is in flight (between its _requests_lock and its end): no two callers are
\* inside a mutating sequence at once.
C2_MutualExclusion ==
    \A t \in Tasks : \A u \in Tasks : (t # u /\ InFlight(t)) => ~InFlight(u)

\* C3 (Spec): a plain request never issues its transport call while a
\* state-mutating sequence is in flight.
C3_NoPlainCallDuringMutation ==
    \A t \in Tasks : ~tasks[t].net.mut

\* C4 (SpecSeq): once no state-mutating sequence is in flight the session
\* gate is not closed, whether the sequences returned or raised.
C4_GateReleased ==
    ~AnyInFlight => can_run_requests # "clear"

\* C6 (SpecSeq): when async_authenticate handles an /auth reply whose server
\* proof is absent or does not verify, the step adopts no field of the reply
\* (UID, AccessToken, RefreshToken, Scopes, AccountName and the 2FA marker
\* keep their values) and the session stays unauthenticated; on a proof that
\* does not verify the call ends by raising ProtonCryptoError.
C6_ProofGuardsAdoption ==
    [][\A t \in Tasks :
        (/\ Running(t)
         /\ HasTop(t, "authenticate", "auth")
         /\ tasks[t].ret.k = "val"
         /\ tasks[t].ret.flag # "proof_ok")
        => /\ UNCHANGED sess
           /\ UID' = 0
           /\ tasks[t].ret.flag = "proof_bad"
                => /\ tasks'[t].susp = "done"
                   /\ tasks'[t].ret = CryptoError("Invalid server proof")]_vars

\* C6 witness: authenticate ended on an /auth reply with a wrong server proof
C6_Witness ==
    /\ tasks[1].susp = "done"
    /\ tasks[1].op = "authenticate"
    /\ tasks[1].net.ep = "auth"
    /\ tasks[1].net.reply.flag = "proof_bad"
    /\ tasks[1].net.reply.tok # 0
    /\ tasks[1].ret = CryptoError("Invalid server proof")
    /\ UID = 0 /\ AccessToken = 0

\* the number a string of hex digits denotes, digit by digit
HexValue(str) ==
    [i \in DOMAIN str |-> CASE str[i] = "2" -> 2
                            [] str[i] \in {"b", "B"} -> 11
                            [] str[i] \in {"c", "C"} -> 12
                            [] OTHER -> 0]

\* C7 (SpecSeq): once async_authenticate has verified the signed modulus of an
\* /auth/info reply, it goes on with the decoded modulus exactly when the
\* signature is valid and the fingerprint of the signing key is the
\* hard-coded one; on any other signed payload it has raised
\* ProtonCryptoError('Invalid modulus') and holds no modulus.
C7_ModulusVerification ==
    \A t \in Tasks :
        LET tk == tasks[t]
            verified == tk.net.reply.sig
        IN  (/\ tk.net.ep = "auth_info"
             /\ tk.net.reply.k = "val"
             /\ tk.susp # "reply"
             /\ ~HasTop(t, "authenticate", "info"))
            => IF /\ verified.valid
                  /\ HexValue(verified.fingerprint) = HexValue(SRP_MODULUS_KEY_FINGERPRINT)
               THEN /\ Len(tk.stack) = 2
                    /\ tk.stack[1].fn = "authenticate" /\ tk.stack[1].pc = "auth"
                    /\ tk.stack[1].modulus = <<16, 20>>
               ELSE /\ tk.stack = <<>>
                    /\ tk.ret = CryptoError("Invalid modulus")

\* C7 witness: a modulus with a valid signature made by another key was refused
C7_Witness ==
    /\ tasks[1].net.ep = "auth_info"
    /\ tasks[1].net.reply.sig.valid
    /\ tasks[1].net.reply.sig.fingerprint = <<"2", "c">>
    /\ tasks[1].susp = "done"
    /\ tasks[1].ret = CryptoError("Invalid modulus")

\* the pin strings are the base64 of sha256 of key_a and of key_b
Pinned(pubkey, hashes) ==
    \/ pubkey = "key_a" /\ "AQI=" \in hashes
    \/ pubkey = "key_b" /\ "AwQ=" \in hashes

BareHostname(str) ==
    LET h == IF str # <<>> /\ str[Len(str)] = "." THEN SubSeq(str, 1, Len(str) - 1) ELSE str
    IN  /\ Len(str) <= 255
        /\ h # <<>>
        /\ \A i \in DOMAIN h : h[i] \in {"a", "-", "."}
        /\ h[1] \notin {"-", "."}
        /\ h[Len(h)] \notin {"-", "."}
        /\ \A i \in 1..(Len(h) - 1) :
             /\ h[i] = "." => h[i + 1] \notin {"-", "."}
             /\ h[i + 1] = "." => h[i] # "-"
        /\ \A i \in 1..(Len(h) - 63) : \E j \in i..(i + 63) : h[j] = "."

\* C9 (SpecAR): every domain of the route cache of the alternative routing
\* transport, and every host that transport sends a request to, matches the
\* bare-hostname grammar: a TXT value that holds a path never becomes a route.
C9_RoutesAreHostnames ==
    /\ \A i \in DOMAIN alternative_routes : BareHostname(alternative_routes[i].domain)
    /\ ar.host # <<>> => BareHostname(ar.host)

\* the transport calls task t issued for the endpoint of its request
ReqCalls(t) == Cardinality({i \in DOMAIN tasks[t].log : tasks[t].log[i][1] = "req"})

\* the error envelope with the status and body code of the pair e
ErrorOf(e) == ErrReply(e[1], e[2])

\* the rows of the classification table that retry: 408/502 and 429/503 when
\* no earlier row matches, and 401 when the refresh it ran was adopted
RetriedRow(t, e) ==
    \/ e[1] \in {408, 502, 429, 503} /\ e[2] # 12087
    \/ /\ e[1] = 401
       /\ tasks[t].net.ep = "refresh"
       /\ tasks[t].net.reply.k = "val"

\* C11 (SpecApi): a request issues at most 3 transport calls for its endpoint
\* whatever the server replies; every call but the first follows an error
\* that was captured, so every retry uses one attempt of the one budget; and
\* when the third attempt ends in an error that is retried (401 with a
\* refresh that succeeded, 408, 502, 429, 503), the request ends by raising
\* that last error as it was captured.
C11_AttemptBudget ==
    \A t \in Tasks :
        tasks[t].op = "request" =>
            LET errs == tasks[t].errs IN
            /\ ReqCalls(t) <= 3
            /\ Len(errs) <= ReqCalls(t)
            /\ ReqCalls(t) <= Len(errs) + 1
            /\ (/\ tasks[t].susp = "done"
                /\ Len(errs) = 3
                /\ RetriedRow(t, errs[3]))
               => tasks[t].ret = ErrorOf(errs[3])

\* C11 witness: a request was answered 408, 503 and 401, refreshed after the
\* 401, and ended by raising the 401
C11_Witness ==
    /\ tasks[1].susp = "done"
    /\ tasks[1].op = "request"
    /\ tasks[1].errs = << <<408, 408>>, <<503, 503>>, <<401, 401>> >>
    /\ ReqCalls(1) = 3
    /\ tasks[1].nref = 1
    /\ tasks[1].ret = ErrReply(401, 401)

\* the classification table, first matching row: its rows are numbered as
\* they are written, 1 (403, session needs 2FA), 2 (403), 3 (401),
\* 4 (422 with body 9001, or body 12087), 5 (408, 502), 6 (429, 503), 7 (other)
TableRow(http, code, twofa) ==
    IF http = 403 /\ twofa THEN 1
    ELSE IF http = 403 THEN 2
    ELSE IF http = 401 THEN 3
    ELSE IF (http = 422 /\ code = 9001) \/ code = 12087 THEN 4
    ELSE IF http \in {408, 502} THEN 5
    ELSE IF http \in {429, 503} THEN 6
    ELSE 7

\* the typed failure a raising row of the table names
RowFailure(row) ==
    CASE row = 1 -> "ProtonAPI2FANeeded"
      [] row = 2 -> "ProtonAPIMissingScopeError"
      [] row = 4 -> "ProtonAPIHumanVerificationNeeded"
      [] OTHER -> "ProtonAPIError"

\* C12 (SpecApi): the step by which async_api_request handles the API error
\* of an attempt does what the first matching row of the table says: rows 1,
\* 2 and 4 end the request with their typed failure, which carries the status
\* and body of the error; row 3 calls the refresh with the revision captured
\* before the attempt, and the step that handles the result of that refresh
\* goes back to the loop when the refresh succeeded and ends the request with
\* 'authentication needed' when the refresh failed in any way; row 5 goes back to the loop at
\* once; row 6 goes back to the loop after a sleep; row 7 ends the request
\* with the error as it was raised.
C12_ClassificationTable ==
    [][\A t \in Tasks :
        /\ (/\ Running(t)
            /\ HasTop(t, "api_request", "ret")
            /\ tasks[t].ret.k = "exc"
            /\ tasks[t].ret.e = "ProtonAPIError")
           => LET r == tasks[t].ret
                  row == TableRow(r.http, r.code, needs_twofa)
                  stk == tasks[t].stack
                  stk2 == tasks'[t].stack
              IN  /\ row \in {1, 2, 4, 7} =>
                        /\ stk2 = SubSeq(stk, 1, Len(stk) - 1)
                        /\ tasks'[t].ret = [r EXCEPT !.e = RowFailure(row)]
                  /\ row = 3 =>
                        /\ Len(stk2) = Len(stk) + 1
                        /\ stk2[Len(stk2)].fn = "refresh"
                        /\ stk2[Len(stk2)].pc = "start"
                        /\ stk2[Len(stk2)].rev = stk[Len(stk)].rev
                        /\ stk2[Len(stk)].pc = "refreshed"
                        /\ tasks'[t].susp = "run"
                  /\ row \in {5, 6} =>
                        /\ Len(stk2) = Len(stk)
                        /\ stk2[Len(stk)].pc = "loop"
                        /\ stk2[Len(stk)].attempts = stk[Len(stk)].attempts
                        /\ tasks'[t].susp = IF row = 5 THEN "run" ELSE "sleep"
                  /\ tasks'[t].log = tasks[t].log
        /\ (/\ Running(t)
            /\ HasTop(t, "api_request", "refreshed"))
           => LET stk == tasks[t].stack
                  stk2 == tasks'[t].stack
              IN  IF tasks[t].ret = Val("True")
                  THEN /\ Len(stk2) = Len(stk)
                       /\ stk2[Len(stk)].pc = "loop"
                       /\ stk2[Len(stk)].attempts = stk[Len(stk)].attempts
                       /\ tasks'[t].susp = "run"
                  ELSE /\ stk2 = SubSeq(stk, 1, Len(stk) - 1)
                       /\ tasks'[t].ret.e = "ProtonAPIAuthenticationNeeded"
                       /\ tasks'[t].ret.http = 401
      ]_vars

\* the typed failures of a request: the subclasses of ProtonAPIError and the
\* two failures of the transport
TypedFailures ==
    {"ProtonAPIAuthenticationNeeded", "ProtonAPI2FANeeded", "ProtonAPIMissingScopeError",
     "ProtonAPIHumanVerificationNeeded", "ProtonAPINotReachable", "ProtonAPIUnexpectedError"}

LocalDataCleared ==
    /\ UID = 0
    /\ AccessToken = 0
    /\ RefreshToken = 0
    /\ Scopes = "None"
    /\ twoFA = FALSE

\* the step of async_logout that handles the outcome r of DELETE /auth raises
\* r and leaves the local session data as it is when keeps(r), and clears the
\* local session data and returns True otherwise
LogoutOutcome(t, keeps) ==
    (Running(t) /\ HasTop(t, "logout", "ret")) =>
        IF keeps
        THEN tasks'[t].ret = tasks[t].ret /\ sess' = sess
        ELSE tasks'[t].ret = Val("True") /\ LocalDataCleared'

\* C14 as stated (SpecSeq): the logout of an authenticated session clears
\* the local session data and returns True on every outcome of DELETE /auth
\* but one, an API error whose HTTP status is not 401, which it raises with
\* the local session data unchanged.
C14_LogoutClears ==
    [][\A t \in Tasks :
        LogoutOutcome(t, /\ tasks[t].ret.k = "exc"
                         /\ tasks[t].ret.e = "ProtonAPIError"
                         /\ tasks[t].ret.http # 401)]_vars

\* C14 amended (SpecSeq): the logout of an authenticated session clears the
\* local session data and returns True when DELETE /auth succeeds or fails
\* with an API error of HTTP status 401; any other failure of DELETE /auth
\* (an API error of another status, or a failure of the transport) is raised
\* with the local session data unchanged.
C14_LogoutClearsUnlessRaised ==
    [][\A t \in Tasks :
        LogoutOutcome(t, /\ tasks[t].ret.k = "exc"
                         /\ ~(tasks[t].ret.e = "ProtonAPIError" /\ tasks[t].ret.http = 401))]_vars

\* C14 witness: a logout whose DELETE /auth was answered 401 has returned
\* True and the local session data is cleared
C14_Witness ==
    /\ tasks[1].op = "logout"
    /\ tasks[1].susp = "done"
    /\ tasks[1].net.ep = "logout"
    /\ tasks[1].net.reply = ErrReply(401, 401)
    /\ tasks[1].ret = Val("True")
    /\ LocalDataCleared
    /\ AccountName # 0

\* C15 (SpecSeq): the step by which async_logout starts on a session without
\* UID ends the logout: it returns True, it issues no transport call, and
\* the session is without UID after it.
C15_LogoutUnauthenticated ==
    [][\A t \in Tasks :
        (Running(t) /\ HasTop(t, "logout", "start") /\ UID = 0) =>
            /\ tasks'[t].ret = Val("True")
            /\ tasks'[t].stack = Pop(tasks[t].stack)
            /\ tasks'[t].log = tasks[t].log
            /\ tasks'[t].net = tasks[t].net
            /\ tasks'[t].susp # "net"
            /\ UID' = 0]_vars

\* C15 witness: a logout has returned True without a transport call
C15_Witness ==
    /\ tasks[1].op = "logout"
    /\ tasks[1].susp = "done"
    /\ tasks[1].ret = Val("True")
    /\ tasks[1].log = <<>>
    /\ UID = 0

\* C16 (SpecSeq): a refresh that has ended has returned a value and has not
\* raised; the value is True when the refresh adopted a refresh reply, and a
\* false one (False, or the None of the exhausted loop) when it adopted none.
C16_RefreshNeverRaises ==
    \A t \in Tasks :
        (tasks[t].op = "refresh" /\ tasks[t].susp = "done") =>
            /\ tasks[t].ret.k = "val"
            /\ tasks[t].ret.v \in {"True", "False", "None"}
            /\ tasks[t].ret.v = "True" <=> tasks[t].nref = 1

\* the task is about to run the first step of async_refresh
RefreshInvoked(t) == Running(t) /\ HasTop(t, "refresh", "start")

\* the invocation is coalesced: it was given a revision and the revision of
\* the session is another one
Coalesced(t) == Top(t).rev # -1 /\ Top(t).rev # refresh_revision

RefreshCallsOf(t) ==
    Cardinality({i \in DOMAIN tasks[t].log : tasks[t].log[i][1] = "refresh"})

\* C17 (SpecRev): no step decreases the refresh revision; the first step of
\* an invocation of async_refresh adds one to it when the invocation is not
\* coalesced and leaves it as it is when the invocation is coalesced; every
\* other step (the attempts and retries of a refresh, the steps of every
\* other operation, __setstate__) leaves it as it is.
C17_RevisionMonotonic ==
    [][/\ refresh_revision' >= refresh_revision
       /\ \A t \in Tasks : RefreshInvoked(t) =>
             refresh_revision' = IF Coalesced(t) THEN refresh_revision
                                 ELSE refresh_revision + 1
       /\ (\A t \in Tasks : ~RefreshInvoked(t)) => refresh_revision' = refresh_revision
      ]_vars

\* C17 witness: the refresh of the first caller posted /auth/refresh twice
\* (the first post was answered by a fault), the second caller waited for it
\* instead of refreshing, and the revision is one
C17_Witness ==
    /\ tasks[1].susp = "done"
    /\ tasks[2].susp = "done"
    /\ tasks[1].own # {}
    /\ RefreshCallsOf(1) = 2
    /\ tasks[2].waited # {}
    /\ tasks[2].own = {}
    /\ refresh_revision = 1

\* the task is about to handle the outcome of POST /auth/2fa
TfaOutcome(t) == Running(t) /\ HasTop(t, "provide_2fa", "ret")

\* body code 8002: the local session data is cleared and 'authentication
\* needed' is raised
TfaJailed(t) ==
    /\ tasks[t].ret.k = "exc"
    /\ tasks[t].ret.code = 8002
    /\ LocalDataCleared'
    /\ tasks'[t].ret = [tasks[t].ret EXCEPT !.e = "ProtonAPIAuthenticationNeeded"]

\* HTTP 401: False is returned and the local session data is unchanged
TfaRefused(t) ==
    /\ tasks[t].ret.k = "exc"
    /\ tasks[t].ret.http = 401
    /\ tasks'[t].ret = Val("False")
    /\ sess' = sess

\* success: the pending-2FA marker is cleared and True is returned
TfaAccepted(t) ==
    /\ tasks[t].ret.k = "val"
    /\ twoFA' = FALSE
    /\ tasks'[t].ret = Val("True")

\* C18 as stated (SpecSeq): the step of async_provide_2fa that handles the
\* outcome of POST /auth/2fa has one of three effects: the one of body code
\* 8002, the one of HTTP 401, the one of a success reply.
C18_ThreeOutcomes ==
    [][\A t \in Tasks :
        TfaOutcome(t) => (TfaJailed(t) \/ TfaRefused(t) \/ TfaAccepted(t))]_vars

\* C18 amended (SpecSeq): the step of async_provide_2fa that handles the
\* outcome of POST /auth/2fa has one of five effects. An API error of body
\* code 8002 clears the local session data and raises 'authentication
\* needed'; another API error of HTTP status 401 returns False with the local
\* session data unchanged; a success reply of Code 1000 adopts its Scopes,
\* clears the pending-2FA marker and returns True; a success reply of
\* another Code adopts its Scopes, keeps the marker and returns False; every
\* other failure is raised as it is with the local session data unchanged.
C18_FiveOutcomes ==
    [][\A t \in Tasks :
        TfaOutcome(t) =>
            LET r == tasks[t].ret
                apiError == r.k = "exc" /\ r.e = "ProtonAPIError"
            IN  IF apiError /\ r.code = 8002 THEN TfaJailed(t)
                ELSE IF apiError /\ r.http = 401 THEN TfaRefused(t)
                ELSE IF r.k = "val"
                THEN /\ Scopes' = r.scopes
                     /\ UNCHANGED <<UID, AccessToken, RefreshToken, AccountName>>
                     /\ IF r.code = 1000
                        THEN TfaAccepted(t)
                        ELSE twoFA' = twoFA /\ tasks'[t].ret = Val("False")
                ELSE tasks'[t].ret = r /\ sess' = sess]_vars

\* C18 witness: a provide_2fa on a session waiting for its second factor was
\* answered body code 8002 and has raised 'authentication needed', the local
\* session data is cleared
C18_Witness ==
    /\ tasks[1].op = "provide_2fa"
    /\ tasks[1].susp = "done"
    /\ tasks[1].net.reply = ErrReply(422, 8002)
    /\ tasks[1].ret = [ErrReply(422, 8002) EXCEPT !.e = "ProtonAPIAuthenticationNeeded"]
    /\ LocalDataCleared
    /\ AccountName # 0

\* async_authenticate of task t has taken its _requests_lock and has not ended
Authenticating(t) ==
    /\ Len(tasks[t].stack) > 0
    /\ tasks[t].stack[1].fn = "authenticate"
    /\ tasks[t].stack[1].pc # "start"

\* the token of the session async_authenticate of task t found: the one its
\* DELETE /auth carried (0 when it found no session and sent none)
PriorToken(t) ==
    IF Len(tasks[t].log) > 0 /\ tasks[t].log[1][1] = "logout"
    THEN tasks[t].log[1][2] ELSE 0

\* the step issues a transport call of task u
Issues(u) == tasks[u].susp # "net" /\ tasks'[u].susp = "net"

\* C19 (Spec): while an async_authenticate is under way the gate is closed;
\* it sends /auth/info only when the local tokens are cleared; and no
\* transport call issued meanwhile, by itself or by another caller, carries
\* the token of the prior session, except its own DELETE /auth.
C19_NoStaleTokenInHandshake ==
    [][\A t \in Tasks : Authenticating(t) =>
        /\ can_run_requests = "clear"
        /\ (Issues(t) /\ tasks'[t].net.ep = "auth_info") =>
                (UID = 0 /\ AccessToken = 0 /\ RefreshToken = 0)
        /\ \A u \in Tasks :
              (Issues(u) /\ PriorToken(t) # 0 /\ tasks'[u].net.tok = PriorToken(t))
                  => (u = t /\ tasks'[u].net.ep = "logout")
      ]_vars

\* C20 (SpecEnv): once the session has an environment, no step gives it an
\* environment of another name; and a call of the setter with the name of
\* another environment raises ValueError and leaves the environment as it is.
C20_EnvironmentSelectedOnce ==
    [][/\ (environment # "None" /\ environment' # "None") => environment' = environment
       /\ (/\ nEnvOps' # nEnvOps
           /\ envCall'.op = "set"
           /\ envCall'.arg \in EnvironmentNames
           /\ environment # "None"
           /\ envCall'.arg # environment)
          => (envCall'.result = "ValueError" /\ environment' = environment)
      ]_vars

\* a session with UID was serialized, and restored from the map
RestoredFromMap == Len(ser.saved) >= 1 /\ ser.saved[1] # EmptyMap /\ ser.how # ""

\* C21 as stated (SpecSer): a session restored from the map of a session
\* with UID is restored without an error, and the map it is serialized to
\* is the map it was restored from, key by key.
C21_RoundTrip ==
    RestoredFromMap =>
        /\ ser.raised = ""
        /\ Len(ser.saved) = 2 => ser.saved[2] = ser.saved[1]

\* C21 amended (SpecSer): for a session with UID whose environment an entry
\* point of the loader names, the restore raises nothing; restored by
\* pickle, the session is serialized to the map it was restored from;
\* restored into a constructed session, it is serialized to that map but
\* for LastUseData, which holds no 2FA, the appversion and the user agent
\* the session was constructed with, and revision 0.
C21_RoundTripByPickle ==
    (RestoredFromMap /\ ser.saved[1]["Environment"] \in DOMAIN EntryPoints) =>
        /\ ser.raised = ""
        /\ Len(ser.saved) = 2 =>
            /\ DOMAIN ser.saved[2] = DOMAIN ser.saved[1]
            /\ \A k \in DOMAIN ser.saved[1] \ {"LastUseData"} :
                    ser.saved[2][k] = ser.saved[1][k]
            /\ ser.saved[2]["LastUseData"] =
                    IF ser.how = "pickle" THEN ser.saved[1]["LastUseData"]
                    ELSE [twoFA |-> "None", appversion |-> ser.ctor[1],
                          user_agent |-> ser.ctor[2], refresh_revision |-> 0]

\* C21 witness: a session of the atlas environment with a pending 2FA, a
\* refresh revision of 1 and two keys of extra state went through pickle
\* and is serialized to the same map again
C21_Witness ==
    /\ ser.how = "pickle"
    /\ Len(ser.saved) = 2
    /\ ser.saved[1] # EmptyMap
    /\ ser.saved[2] = ser.saved[1]
    /\ ser.saved[1]["Environment"] = "atlas"
    /\ ser.saved[1]["LastUseData"].twoFA = "totp"
    /\ ser.saved[1]["LastUseData"].refresh_revision = 1
    /\ DOMAIN ser.saved[1] = KnownKeys \cup ExtraKeys
SelectionEnds == auto.find.pc = "wait" /\ auto'.find.pc \in {"returned", "raised"}

\* the task of choice c is done and returned its transport
ProbeSucceeded(c) == auto.probe[c].pc = "done" /\ auto.probe[c].result.k = "transport"

\* C23: a selection makes a transport the current one only if the ping of
\* that transport returned exactly {"Code": 1000}; a selection that ends
\* without a successful ping raises ProtonAPINotReachable and makes no
\* transport the current one.
C23_CommitOnlyOnPing ==
    [][/\ (auto'.current # auto.current /\ auto'.current # 0) =>
              transport_api_request(auto.choices[auto'.current],
                                    auto.probe[auto'.current].answer) = Returns(PingOK)
       /\ (SelectionEnds /\ \A c \in Choices : ~ProbeSucceeded(c)) =>
              /\ auto'.find.pc = "raised"
              /\ auto'.find.exc = "ProtonAPINotReachable"
              /\ auto'.current = auto.current]_vars

\* C24: a selection in which the ping of every choice timed out, or in which
\* the ping of every choice returned something else than {"Code": 1000}, ends
\* without raising, and the transport is not available afterwards.
C24_AllFailCompletes ==
    [][(/\ SelectionEnds
        /\ \/ \A c \in Choices : auto'.probe[c].answer = "hang"
           \/ \A c \in Choices : auto'.probe[c].answer \in {"foobar", "code_1001", "ok_more"}) =>
           /\ auto'.find.pc = "returned"
           /\ auto'.current = 0]_vars

\* C25: when the selection takes the result of a task whose ping reached the
\* API and got a broken answer, and no task of the same batch succeeded, the
\* choice is recorded in results_fail, the selection does not end while tasks
\* are pending and these tasks go on; and a selection that ends with a task
\* that succeeded makes the transport of such a task the current one.
C25_BrokenProbeOnlyRecorded ==
    [][/\ \A c \in Choices :
            (/\ auto.find.pc = "wait"
             /\ auto.probe[c].pc = "done" /\ auto'.probe[c].pc = "taken"
             /\ auto.probe[c].answer \in ReachableButBroken
             /\ \A d \in Choices : ~ProbeSucceeded(d)) =>
                /\ \E i \in DOMAIN auto'.find.results_fail : auto'.find.results_fail[i] = c
                /\ \A d \in Choices : auto.probe[d].pc \in {"sleep", "ping"} =>
                       /\ auto'.probe[d] = auto.probe[d]
                       /\ auto'.find.pc = "wait"
       /\ (SelectionEnds /\ \E d \in Choices : ProbeSucceeded(d)) =>
              /\ auto'.find.pc = "returned"
              /\ auto'.current # 0
              /\ ProbeSucceeded(auto'.current)]_vars

\* C26: a call of the current transport that times out leaves no current
\* transport, so that the next attempt of the request begins with a
\* selection; the third timeout of a request ends it with
\* ProtonAPINotReachable, and an earlier one leads to the next attempt.
C26_TimeoutEvicts ==
    [][/\ auto'.req.timed_out = auto.req.timed_out + 1 =>
              /\ auto'.current = 0
              /\ IF auto'.req.timed_out = AutoTries
                 THEN /\ auto'.req.pc = "done"
                      /\ auto'.req.result = Raises("ProtonAPINotReachable")
                 ELSE auto'.req.pc = "loop"
       /\ (auto.req.pc = "loop" /\ auto.req.timed_out > 0 /\ auto'.req # auto.req) =>
              /\ auto'.req.pc = "finding"
              /\ auto'.find.pc = "wait"
              /\ auto'.find.by = "request"]_vars

C26_Witness ==
    /\ auto.req.pc = "done"
    /\ auto.req.timed_out = AutoTries
    /\ auto.req.result = Raises("ProtonAPINotReachable")
    /\ auto.current = 0
    /\ auto.find.by = "request"
    /\ auto.find.pc = "returned"
\* ------------------------------------------------------------- C27 .. C30
\* a step in which the loop of _get_alternative_routes takes the results of
\* the tasks that are done
RoundTakes == ar.pc = "resolving" /\ ar.done # <<>> /\ ar'.done = <<>>

\* a step in which _get_alternative_routes ends
RoundEnds == ar.pc = "resolving" /\ ar'.pc \in {"send", "done"}

\* C27 (SpecAR): when one of the queries whose results a round takes got a
\* reply with RCODE 3, the round ends there by raising ProtonAPINotAvailable
\* ("No alternative routing exists"): no query is left pending, the request is
\* sent nowhere, the failure is not the ProtonAPINotReachable of resolvers
\* that failed, and the route cache is as it was, whatever the other queries
\* answered.
C27_NxdomainIsFatal ==
    [][(RoundTakes /\ ar.nx) =>
           /\ ar'.pc = "done"
           /\ ar'.result.k = "exc" /\ ar'.result.e = "ProtonAPINotAvailable"
           /\ ar'.pending = 0
           /\ ar'.host = <<>>
           /\ alternative_routes' = alternative_routes]_vars

C27_Witness ==
    /\ ar.pc = "done"
    /\ ar.round = "raised"
    /\ ar.result.e = "ProtonAPINotAvailable"
    /\ Len(alternative_routes) > 0

C29_NoDuplicateDomain ==
    \A i, j \in DOMAIN alternative_routes :
        i # j => alternative_routes[i].domain # alternative_routes[j].domain

\* C30 (SpecAR): when a round ends, with new routes or without, the route
\* cache holds no route that expired before now.
C30_NoExpiredAfterRound ==
    [][RoundEnds =>
           \A i \in DOMAIN alternative_routes' :
               alternative_routes'[i].expiration_time >= now]_vars

\* ------------------------------------------------------------- C31 .. C40
\* the hostnames the documentation of the check describes: at most 255
\* characters and, without one trailing dot, labels of 1 to 63 ASCII letters,
\* digits or hyphens separated by dots, none starting or ending with a hyphen
DocumentedHostname(str) ==
    LET h == IF str # <<>> /\ str[Len(str)] = "." THEN SubSeq(str, 1, Len(str) - 1) ELSE str
    IN  /\ Len(str) <= 255
        /\ h # <<>>
        /\ \A i \in DOMAIN h : h[i] \in {"a", "1", "-", "."}
        /\ h[1] \notin {"-", "."}
        /\ h[Len(h)] \notin {"-", "."}
        /\ \A i \in 1..(Len(h) - 1) :
             /\ h[i] = "." => h[i + 1] \notin {"-", "."}
             /\ h[i + 1] = "." => h[i] # "-"
        /\ \A i \in 1..(Len(h) - 63) : \E j \in i..(i + 63) : h[j] = "."

\* C36 (SpecHost): the hostname check returns, without raising, True for
\* exactly the strings of at most 255 characters whose labels (after removing
\* one optional trailing dot) have 1 to 63 ASCII letters, digits or hyphens and
\* neither start nor end with a hyphen, and False for every other string.
C36_HostnameCheck ==
    hn.pc = "done" => hn.result = returned(DocumentedHostname(hn.hostname))

\* C39 (FairName): decoding a DNS name ends, by returning or by raising, for
\* every buffer and every start offset.
C39_NameDecodingEnds == <>(gn.pc = "done")

\* C31 (SpecDns): parsing a reply returns a list of answers or raises a DNS
\* error of the parser and nothing else: the parsing error for a reply shorter
\* than the 12-byte header and for every other malformed reply, the response
\* error (which the parsing error is not) for a nonzero RCODE.
C31_OnlyDnsErrors ==
    dnsp.pc = "done" =>
        /\ dnsp.result.k \in {"val", "exc"}
        /\ dnsp.result.k = "exc" =>
              /\ dnsp.result.e \in {"DNSParsingException", "DNSResponseError"}
              /\ Len(dnsp.reply_data) < 12 => dnsp.result.e = "DNSParsingException"
              /\ dnsp.result.e = "DNSResponseError" <=>
                    (Len(dnsp.reply_data) >= 12 /\ dnsp.reply_data[4] % 16 # 0)
        /\ (Len(dnsp.reply_data) < 12 \/ dnsp.reply_data[4] % 16 # 0) => dnsp.result.k = "exc"

PinFailure == Raised("ProtonAPINotReachable", "TLS pinning verification failed")

\* C32 as stated (SpecPin): a transport whose environment lists no pin does
\* not pin: no request ends with the pin failure, and a request is answered
\* only by a server whose certificate chain is valid.
C32_EmptyPinSetDoesNotPin ==
    (tr.pc = "done" /\ tls_pinning_hashes.hashes = {})
    => /\ tr.result # PinFailure
       /\ tr.result.k = "val" => server.chain_ok

\* C32 (SpecPin): a transport whose environment pin set is None does not pin:
\* no request ends with the pin failure and a request is answered only by a
\* server whose certificate chain is valid, whatever its key; a transport
\* whose pin set is an empty set refuses every connection it makes with the
\* pin failure.
C32_NoPinSetDoesNotPin ==
    tr.pc = "done"
    => /\ tls_pinning_hashes.none =>
            /\ tr.result # PinFailure
            /\ tr.result.k = "val" => server.chain_ok
       /\ (~tls_pinning_hashes.none /\ tls_pinning_hashes.hashes = {} /\ tr.sslcontext)
            => tr.result = PinFailure

\* C32 witness: without a pin set, a server with a valid chain and a key no
\* environment pins was answered
C32_Witness ==
    /\ tr.pc = "done"
    /\ tls_pinning_hashes = NoPins
    /\ server = [leaf |-> "key_c", chain_ok |-> TRUE]
    /\ tr.ssl_specs = "default_context"
    /\ tr.result.k = "val"

\* the implementations C33 speaks of: known when the call is made, not
\* excluded by the override (neither named with a minus sign nor left out by
\* the forcing of another), with a priority, and whose _validate succeeds or
\* is not defined
Eligible ==
    {c \in ld.before :
        /\ c \notin excluded(ld.overrides)
        /\ forced(ld.overrides) \subseteq {c}
        /\ ld.priority[c] # NoPriority
        /\ ld.validate[c] # "False"}

\* C33 (SpecLoader): Loader.get(type) returns an eligible implementation of
\* the highest priority among the eligible ones; it raises RuntimeError when
\* there is none, which includes an override that forces a name no known
\* implementation has.
C33_HighestValidPriority ==
    ld.pc = "done" =>
        IF Eligible = {} THEN ld.result = raised("RuntimeError")
        ELSE /\ ld.result.k = "val"
             /\ ld.result.v \in Eligible
             /\ \A c \in Eligible : ld.priority[c] <= ld.priority[ld.result.v]

\* C34 (SpecSso): sessions returns exactly the accounts whose latest release
\* carried data, each once, the last account given to set_default_account
\* first and the others in the order they had.
C34_SessionsListsStoredAccounts ==
    sso.last.op = "sessions" => sso.last.result = returned(sso.listed)

\* C38 (SpecSso): when a call of _release_session_lock for an account ends,
\* by returning or by raising, this process no longer holds the advisory lock
\* of the account.
C38_ReleaseUnlocks ==
    (sso.last.op = "release" /\ sso.last.account_name # "")
        => sso.last.account_name \notin sso.flocked

C40_NoTokensWithoutUID ==
    UID = 0 => (AccessToken = 0 /\ RefreshToken = 0 /\ Scopes = "None")

\* C37 (SpecObs): no observer is told to lock an account while the account
\* it was last told to lock has not been released to it under the same name.
C37_NotificationsPaired == ~notified.unpaired

====
